---- MODULE Spec2Model ----
(***************************************************************************)
(* A model of AutomacaoBanco.py (one reconciliation run against the two    *)
(* target tables PUB_TIPOS_TEXTOS / PUB_TIPOS_TEXTOS_TITULOS) and of the   *)
(* Drive watcher watch_run.py.                                             *)
(*                                                                         *)
(* The store is seen through one pyodbc connection opened with the default *)
(* autocommit=False (AutomacaoBanco.py:124): TT and TL are the tables as   *)
(* the connection sees them (uncommitted work included), durable is what   *)
(* conn.commit() has made permanent, and conn.close() discards the rest.   *)
(***************************************************************************)
EXTENDS Integers, Sequences, FiniteSets, TLC

(***************************************************************************)
(* Bounds of the model.                                                    *)
(***************************************************************************)
MaxId == 2
MaxRows == 2

IdTipos == 1..MaxId

(***************************************************************************)
(* Values.                                                                 *)
(***************************************************************************)
\* pd.NA / NaN in the id_tipo column (to_numeric(errors="coerce")).
NA == 0
\* SQL NULL / Python None / NaN in a text cell.
NULL == "NULL"
\* A NULL content id in the mapping table.
NULLID == -1
\* args.default_idconteudo is None.
NoDefault == -1

(***************************************************************************)
(* Sequence helpers.                                                       *)
(***************************************************************************)
Range(s) == {s[k] : k \in DOMAIN s}

RECURSIVE SelectRows(_, _)
\* df[df[col].isin(keep)] / df[df[col].notna()]: the rows whose idTipo is in
\* keep, in input order.
SelectRows(s, keep) ==
    IF s = <<>> THEN <<>>
    ELSE IF Head(s).idTipo \in keep
         THEN <<Head(s)>> \o SelectRows(Tail(s), keep)
         ELSE SelectRows(Tail(s), keep)

RECURSIVE UniqueIds(_, _)
\* Series.dropna().astype(int).unique().tolist(): first appearances, in order.
UniqueIds(s, seen) ==
    IF s = <<>> THEN <<>>
    ELSE IF Head(s).id_tipo = NA \/ Head(s).id_tipo \in seen
         THEN UniqueIds(Tail(s), seen)
         ELSE <<Head(s).id_tipo>> \o UniqueIds(Tail(s), seen \cup {Head(s).id_tipo})

RECURSIVE SortedInts(_)
\* sorted(S) for a finite set of integers.
SortedInts(S) ==
    IF S = {} THEN <<>>
    ELSE LET m == CHOOSE x \in S : \A y \in S : x <= y
         IN  <<m>> \o SortedInts(S \ {m})

\* The rows of table t whose idTipo is id.
Matching(t, id) == {k \in DOMAIN t : t[k].idTipo = id}

(***************************************************************************)
(* The store's statements.  A table is the sequence of its rows.           *)
(***************************************************************************)
\* SeedRowTT with the parameters bound in the wrong order: the id as content id.
SeedRowTTWrongConteudo(idt, idc) ==
    [idTipo |-> idt, TextoPrimario |-> "", TextoSecundario |-> "",
     Ativo |-> 1, IdConteudo |-> idt, Header |-> NULL]

\* The rows seed_missing inserts (VALUES (?, '', '', 1, ?, NULL) / (?, '', '', 1, ?)).
SeedRowTT(idt, idc) ==
    [idTipo |-> idt, TextoPrimario |-> "", TextoSecundario |-> "",
     Ativo |-> 1, IdConteudo |-> idc, Header |-> NULL]

SeedRowTL(idt, idc) ==
    [idTipo |-> idt, TextoTitle |-> "", TextoMetaDescription |-> "",
     Ativo |-> 1, IdConteudo |-> idc]

\* InsertIfNotExists that overwrites the rows of the id when there are some.
InsertOrReplace(t, row) ==
    IF Matching(t, row.idTipo) = {} THEN Append(t, row)
    ELSE [k \in DOMAIN t |-> IF t[k].idTipo = row.idTipo THEN row ELSE t[k]]

\* InsertIfNotExists without the IF NOT EXISTS guard.
InsertAlways(t, row) == Append(t, row)

\* IF NOT EXISTS (SELECT 1 FROM t WHERE idTipo=?) INSERT INTO t ... : the table after it.
InsertIfNotExists(t, row) ==
    IF Matching(t, row.idTipo) = {} THEN Append(t, row) ELSE t

\* UpdateTT that leaves Ativo alone.
UpdateTTKeepsAtivo(t, idt, t1, t2) ==
    [k \in DOMAIN t |->
        IF t[k].idTipo = idt
        THEN [t[k] EXCEPT !.TextoPrimario = t1, !.TextoSecundario = t2]
        ELSE t[k]]

\* UPDATE TT SET TextoPrimario=?, TextoSecundario=?, Ativo=1 WHERE idTipo=?
UpdateTT(t, idt, t1, t2) ==
    [k \in DOMAIN t |->
        IF t[k].idTipo = idt
        THEN [t[k] EXCEPT !.TextoPrimario = t1, !.TextoSecundario = t2, !.Ativo = 1]
        ELSE t[k]]

\* UPDATE TL SET TextoTitle=?, TextoMetaDescription=?, Ativo=1 WHERE idTipo=?
UpdateTL(t, idt, ttitle, tmeta) ==
    [k \in DOMAIN t |->
        IF t[k].idTipo = idt
        THEN [t[k] EXCEPT !.TextoTitle = ttitle, !.TextoMetaDescription = tmeta, !.Ativo = 1]
        ELSE t[k]]

\* A rowcount that is 1 for every statement, whatever it matched.
RowCountOne(t, idt) == 1

\* cur.rowcount of an UPDATE ... WHERE idTipo=?
RowCount(t, idt) == Cardinality(Matching(t, idt))

(***************************************************************************)
(* fetch_existing_idtipos: ids looked up in chunks of ChunkSize.           *)
(***************************************************************************)
ChunkSize == 1000

RECURSIVE FetchChunks(_, _, _)
FetchChunks(t, ids, size) ==
    IF ids = <<>> THEN {}
    ELSE LET n     == IF Len(ids) < size THEN Len(ids) ELSE size
             chunk == SubSeq(ids, 1, n)
             \* SELECT idTipo FROM TT WHERE idTipo IN (chunk)
             found == {t[k].idTipo : k \in {j \in DOMAIN t : t[j].idTipo \in Range(chunk)}}
         IN  found \cup FetchChunks(t, SubSeq(ids, n + 1, Len(ids)), size)

fetch_existing_idtipos(t, ids) ==
    IF ids = <<>> THEN {} ELSE FetchChunks(t, ids, ChunkSize)

(***************************************************************************)
(* resolve_idconteudo: idTipo -> MIN/MAX(content id) over the mapping      *)
(* table, a sequence of <<idTipo, content id>> rows scanned in order.      *)
(***************************************************************************)
\* Aggregate that takes the first non-null content id of the id's rows.
AggregateFirstRow(m, idt, fn, acc) ==
    LET ks == {k \in DOMAIN m : m[k][1] = idt /\ m[k][2] # NULLID}
    IN  IF ks = {} THEN acc
        ELSE m[CHOOSE k \in ks : \A j \in ks : k <= j][2]

RECURSIVE Aggregate(_, _, _, _)
\* fn(conteudo) over the rows of m with tipo = idt and conteudo IS NOT NULL;
\* acc is the aggregate so far (NULLID: no row yet).
Aggregate(m, idt, fn, acc) ==
    IF m = <<>> THEN acc
    ELSE LET r == Head(m)
             next == IF r[1] # idt \/ r[2] = NULLID THEN acc
                     ELSE IF acc = NULLID THEN r[2]
                     ELSE IF fn = "MIN" THEN (IF r[2] < acc THEN r[2] ELSE acc)
                     ELSE (IF r[2] > acc THEN r[2] ELSE acc)
         IN  Aggregate(Tail(m), idt, fn, next)

\* pick.lower() == "min"
Lower(pick) == IF pick \in {"min", "MIN", "Min"} THEN "min"
               ELSE IF pick \in {"max", "MAX", "Max"} THEN "max" ELSE pick

AggFn(pick) == IF Lower(pick) = "min" THEN "MIN" ELSE "MAX"

resolve_idconteudo(m, missing_ids, pick) ==
    LET ids  == Range(missing_ids)
        fn   == AggFn(pick)
        hit  == {i \in ids : Aggregate(m, i, fn, NULLID) # NULLID}
    IN  [i \in hit |-> Aggregate(m, i, fn, NULLID)]

\* sorted((int(k), int(v)) for k, v in idtipo_to_idconteudo.items())
ToDo(mapping) ==
    LET ks == SortedInts(DOMAIN mapping)
    IN  [k \in DOMAIN ks |-> <<ks[k], mapping[ks[k]]>>]

(***************************************************************************)
(* build_frames: the spreadsheet as the two frames of update rows.         *)
(***************************************************************************)
TitleMax == 80
MetaMax == 320

\* Series.astype(str): a missing cell (NaN) becomes the text "nan".
AsTypeStr(v) == IF v = NULL THEN "nan" ELSE v

\* Series.str.slice(0, n)
Slice(str, n) == IF Len(str) <= n THEN str ELSE SubSeq(str, 1, n)

\* pd.isna(v)
IsNa(v) == v = NULL

\* "None if pd.isna(x) else str(x)": the parameter bound to a text column.
SqlText(v) == IF IsNa(v) THEN NULL ELSE v

RECURSIVE FrameTT(_)
\* df_textos: the rows whose id_tipo is a number.
FrameTT(rws) ==
    IF rws = <<>> THEN <<>>
    ELSE LET r == Head(rws)
         IN  (IF r.id_tipo = NA THEN <<>>
              ELSE <<[idTipo |-> r.id_tipo,
                      TextoPrimario |-> r.TextoPrimario,
                      TextoSecundario |-> r.TextoSecundario]>>)
             \o FrameTT(Tail(rws))

RECURSIVE FrameTL(_, _)
\* df_titulos: empty unless a title or a meta column is present.
FrameTL(rws, columns) ==
    IF "Texto Title" \notin columns /\ "Texto Meta Description" \notin columns THEN <<>>
    ELSE IF rws = <<>> THEN <<>>
    ELSE LET r == Head(rws)
         IN  (IF r.id_tipo = NA THEN <<>>
              ELSE <<[idTipo |-> r.id_tipo,
                      TextoTitle |->
                          IF "Texto Title" \in columns
                          THEN Slice(AsTypeStr(r.TextoTitle), TitleMax) ELSE NULL,
                      TextoMetaDescription |->
                          IF "Texto Meta Description" \in columns
                          THEN Slice(AsTypeStr(r.TextoMeta), MetaMax) ELSE NULL]>>)
             \o FrameTL(Tail(rws), columns)

(***************************************************************************)
(* State.                                                                  *)
(***************************************************************************)
VARIABLES
    \* the invocation: the spreadsheet, its optional columns, the arguments,
    \* the content-mapping table, and who calls seed_missing
    rows, cols, args, mapTable, caller,
    \* PROCESSADO_BUSCA_TIPOS as a query returns it: <<idCategoria, idGrupo, idTipo>>
    tipos,
    \* the store: the connection's view of the two tables, and what is committed
    TT, TL, durable,
    \* main()'s position and locals
    pc, df_tt, df_tl, ids_plan, existentes, faltam_all, mapa, sem_mapa,
    \* seed_missing's / update_*'s locals
    to_do, i, upd_tt, upd_tl,
    \* the connection ("none", "open", "closed") and how the process ended
    conn, outcome, exit_code,
    \* history: the write statements executed, the store at the start of the
    \* run and at the entry of seed_missing, the calls of seed_missing made,
    \* the log lines about ids without a content id
    stmts, store0, seed0, calls, diag,
    \* watch_run.py: main()'s position and locals, the handled-set in memory
    \* (processed) and in PROCESSED_FILE (disk), the folder's newest .xlsx as
    \* Drive lists it, _should_stop; history: whether the watcher was restarted
    w_pc, processed, disk, drive, f, should_stop, decision, reloaded,
    \* the seconds of the wait between two checks that have passed
    slept,
    \* history: the importer runs of this process that have not returned, the
    \* runs started since the last listing, and the file of the last run that
    \* failed, for as long as the folder stays as that run found it
    running, started, failed,
    \* how the importer run of the tick in progress ended ("none": no run yet)
    ended,
    \* the listed file's name, its sanitized form and the temporary path made of
    \* it, each a sequence of character codes
    fname, safe_name, local_path

inputVars == <<rows, cols, args, mapTable, caller, tipos>>
storeVars == <<TT, TL, durable>>
localVars == <<df_tt, df_tl, ids_plan, existentes, faltam_all, mapa, sem_mapa,
               to_do, i, upd_tt, upd_tl>>
endVars   == <<conn, outcome, exit_code>>
histVars  == <<stmts, store0, seed0, calls, diag>>
coreVars  == <<inputVars, storeVars, pc, localVars, endVars, histVars>>

watchVars == <<w_pc, processed, disk, drive, f, should_stop, decision, reloaded, slept,
               running, started, failed, ended, fname, safe_name, local_path>>

\* What no step of the importer changes.
fixedVars == <<inputVars, watchVars>>

(***************************************************************************)
(* Inputs and initial stores of the model.                                 *)
(***************************************************************************)
\* argparse's defaults.
DefaultMaxSeed == 50
DefaultAbortPct == 35

\* --max-seed values that the missing ids of a sheet can reach.
SeedCaps == {1, 2}

\* --abort-if-missing-ratio, in hundredths: the default 0.35, 0.5, and the
\* watcher's 1.0.
AbortPcts == {DefaultAbortPct, 50, 100}

\* The text cells of spreadsheet row k: its own primary and secondary text;
\* every third row has a blank primary cell, the row after it a blank
\* secondary cell.
TextPair(k) ==
    LET p == "P" \o ToString(k)
        s == "S" \o ToString(k)
    IN  IF k % 3 = 0 THEN <<NULL, s>>
        ELSE IF k % 3 = 2 THEN <<p, NULL>>
        ELSE <<p, s>>

SheetRows(k) ==
    {[id_tipo |-> id, id_cat |-> NA, id_grupo |-> NA,
      TextoPrimario |-> TextPair(k)[1], TextoSecundario |-> TextPair(k)[2],
      TextoTitle |-> "T" \o ToString(k), TextoMeta |-> "M" \o ToString(k)] :
        id \in 0..MaxId}

\* The spreadsheets of n rows.
RECURSIVE SheetsOfLen(_)
SheetsOfLen(n) ==
    IF n = 0 THEN {<<>>}
    ELSE {Append(sh, r) : sh \in SheetsOfLen(n - 1), r \in SheetRows(n)}

Sheets == UNION {SheetsOfLen(n) : n \in 0..MaxRows}

\* A row that is in the store before the run.
OldTT(id) ==
    [idTipo |-> id, TextoPrimario |-> "old", TextoSecundario |-> "old",
     Ativo |-> 0, IdConteudo |-> 9, Header |-> NULL]

OldTL(id) ==
    [idTipo |-> id, TextoTitle |-> "old", TextoMetaDescription |-> "old",
     Ativo |-> 0, IdConteudo |-> 9]

\* The table holding one old row per id of ids (identifiers are unique).
TableTT(ids) == LET ks == SortedInts(ids) IN [k \in DOMAIN ks |-> OldTT(ks[k])]
TableTL(ids) == LET ks == SortedInts(ids) IN [k \in DOMAIN ks |-> OldTL(ks[k])]

\* The mapping table in which the ids up to k have the content ids 7 and 3
\* (and a NULL one), and the others only a NULL one.
RECURSIVE MapTableUpTo(_, _)
MapTableUpTo(k, n) ==
    IF n = 0 THEN <<>>
    ELSE MapTableUpTo(k, n - 1) \o
         (IF n <= k THEN <<<<n, 7>>, <<n, NULLID>>, <<n, 3>>>> ELSE <<<<n, NULLID>>>>)

IdsOf(t) == {t[k].idTipo : k \in DOMAIN t}

\* The arguments a run over sheet sh and table tt depends on; the others are
\* left at their defaults.
ArgsFor(sh, tt) ==
    LET ids     == Range(UniqueIds(sh, {}))
        missing == ids \ IdsOf(tt)
    IN  {a \in [auto_seed : BOOLEAN, dry_run : BOOLEAN,
                max_seed : SeedCaps \cup {DefaultMaxSeed},
                abort_pct : AbortPcts,
                pick : {"min", "max"},
                default_idconteudo : {NoDefault, 1}] :
            /\ a.auto_seed => a.abort_pct = DefaultAbortPct
            /\ (~a.auto_seed \/ missing = {}) => a.max_seed = DefaultMaxSeed
            /\ (a.auto_seed /\ missing # {}) => a.max_seed # DefaultMaxSeed
            /\ (~a.auto_seed \/ missing = {} \/ Cardinality(missing) > a.max_seed)
                  => (a.pick = "min" /\ a.default_idconteudo = NoDefault)}

MapTablesFor(sh, tt, a) ==
    LET ids     == Range(UniqueIds(sh, {}))
        missing == ids \ IdsOf(tt)
    IN  IF a.auto_seed /\ missing # {} /\ Cardinality(missing) <= a.max_seed
        THEN {MapTableUpTo(k, MaxId) : k \in 0..MaxId}
        ELSE {MapTableUpTo(0, MaxId)}

\* The locals before main() has assigned them.
InitLocals ==
    /\ df_tt = <<>> /\ df_tl = <<>>
    /\ existentes = {} /\ sem_mapa = <<>>
    /\ to_do = <<>> /\ i = 0 /\ upd_tt = 0 /\ upd_tl = 0
    /\ outcome = "running" /\ exit_code = -1
    /\ stmts = <<>> /\ calls = 0 /\ diag = {}

\* The empty dict.
EmptyMap == [x \in {} |-> x]

\* No watcher is running.
WatcherOff ==
    /\ w_pc = "off" /\ processed = EmptyMap /\ disk = EmptyMap
    /\ drive = <<>> /\ f = <<>>
    /\ should_stop = FALSE /\ decision = "none" /\ reloaded = FALSE
    /\ slept = 0
    /\ running = 0 /\ started = 0 /\ failed = <<>> /\ ended = "none"
    /\ fname = <<>> /\ safe_name = <<>> /\ local_path = <<>>

\* A run of AutomacaoBanco.py about to start.
InitRun ==
    /\ WatcherOff
    /\ rows \in Sheets
    /\ cols \in {{"id_tipo"}, {"id_tipo", "Texto Title", "Texto Meta Description"}}
    /\ tipos = <<>>
    /\ conn = "none"
    \* a title record belongs to a canonical record; the converse may fail
    /\ \E ett \in SUBSET IdTipos : \E etl \in SUBSET ett :
          /\ TT = TableTT(ett)
          /\ TL = TableTL(etl)
    /\ durable = [TT |-> TT, TL |-> TL]
    /\ store0 = durable
    /\ seed0 = durable
    /\ args \in ArgsFor(rows, TT)
    /\ mapTable \in MapTablesFor(rows, TT, args)
    /\ caller = "main"
    /\ pc = "start"
    /\ faltam_all = <<>> /\ mapa = <<>>
    /\ InitLocals
    /\ ids_plan = <<>>

(***************************************************************************)
(* main() of AutomacaoBanco.py, with kind = "SQLSERVER" (MODO is           *)
(* "HOMOLOGACAO") and a spreadsheet that has the id_tipo column.           *)
(***************************************************************************)
\* How a run ends: the process's exit code, and conn.close() when a
\* connection was opened (uncommitted work is rolled back).
\* Exit with the exit code zero, however the run ends.
ExitZero(how, code) ==
    /\ pc' = "exit"
    /\ outcome' = how
    /\ exit_code' = 0

Exit(how, code) ==
    /\ pc' = "exit"
    /\ outcome' = how
    /\ exit_code' = code

\* Close on a connection that commits every statement as it executes.
CloseAutocommit(how, code) ==
    /\ Exit(how, code)
    /\ conn' = "closed"
    /\ durable' = [TT |-> TT, TL |-> TL]
    /\ UNCHANGED <<TT, TL>>

Close(how, code) ==
    /\ Exit(how, code)
    /\ conn' = "closed"
    /\ TT' = durable.TT
    /\ TL' = durable.TL
    /\ UNCHANGED durable

\* Lines 425-427: the file is not there; sys.exit(2) before any connection.
NoFile ==
    /\ pc = "start"
    /\ Exit("no_file", 2)
    /\ UNCHANGED <<fixedVars, storeVars, localVars, histVars, conn>>

\* pd.to_numeric(df[col], errors="coerce").dropna().astype(int).unique()
NumericValues(rws, col) == {rws[k][col] : k \in DOMAIN rws} \ {NA}

\* Lines 267-276: ensure_id_tipo raises ValueError.
EnsureRaises(rws, columns) ==
    /\ "id_tipo" \notin columns
    /\ \/ ~({"id_cat", "id_grupo"} \subseteq columns)
       \/ NumericValues(rws, "id_cat") = {}
       \/ NumericValues(rws, "id_grupo") = {}

\* Lines 278-285: the rows of the table for the sheet's categories and groups.
QueryTipos(t, cats, grupos) == SelectSeq(t, LAMBDA r : r[1] \in cats /\ r[2] \in grupos)

\* MapGet that looks the category up and ignores the group.
MapGetByCategory(result, idc, idg) ==
    LET ks == {k \in DOMAIN result : result[k][1] = idc}
    IN  IF ks = {} THEN NA
        ELSE result[CHOOSE k \in ks : \A j \in ks : j <= k][3]

RECURSIVE MapGet(_, _, _)
\* Lines 288 and 295: {(idc, idg): idt for ...}.get((idc, idg), pd.NA); of
\* several rows with one key the dict keeps the last.
MapGet(result, idc, idg) ==
    IF result = <<>> THEN NA
    ELSE LET r == result[Len(result)]
         IN  IF r[1] = idc /\ r[2] = idg THEN r[3]
             ELSE MapGet(SubSeq(result, 1, Len(result) - 1), idc, idg)

\* Lines 258-300: the sheet with its id_tipo column, mapped from
\* (id_cat, id_grupo) when the sheet has none.
ensure_id_tipo(t, rws, columns) ==
    IF "id_tipo" \in columns THEN rws
    ELSE LET result == QueryTipos(t, NumericValues(rws, "id_cat"),
                                  NumericValues(rws, "id_grupo"))
         IN  [k \in DOMAIN rws |->
                [rws[k] EXCEPT !.id_tipo =
                    IF rws[k].id_cat = NA \/ rws[k].id_grupo = NA THEN NA
                    ELSE MapGet(result, rws[k].id_cat, rws[k].id_grupo)]]

\* A log line: its text, the number it reports, the ids it lists, and whether
\* it ends with " ..." for the ids left out.
LogLine(line, n, ids, more) == [line |-> line, n |-> n, ids |-> ids, more |-> more]

RECURSIVE UnmappedPairs(_, _)
\* Line 298: df[df["id_tipo"].isna()][["id_cat", "id_grupo"]].drop_duplicates():
\* the pairs of the rows left without identifier, first appearances, in order.
UnmappedPairs(df, seen) ==
    IF df = <<>> THEN <<>>
    ELSE LET p == <<Head(df).id_cat, Head(df).id_grupo>>
         IN  IF Head(df).id_tipo # NA \/ p \in seen
             THEN UnmappedPairs(Tail(df), seen)
             ELSE <<p>> \o UnmappedPairs(Tail(df), seen \cup {p})

\* The pairs the warning shows.
PairsMax == 20

\* Line 300: faltam[:20]
PairsPreview(pairs) == IF Len(pairs) <= PairsMax THEN pairs ELSE SubSeq(pairs, 1, PairsMax)

\* Lines 297-300: the warning ensure_id_tipo logs when it has mapped the
\* column and rows are left without identifier.
EnsureWarning(df, columns) ==
    IF "id_tipo" \in columns \/ UnmappedPairs(df, {}) = <<>> THEN {}
    ELSE {LogLine("sem id_tipo mapeado", Len(PairsPreview(UnmappedPairs(df, {}))),
                  PairsPreview(UnmappedPairs(df, {})), FALSE)}

\* Lines 428-443: read the sheet, connect, make sure of the id_tipo column,
\* build the frames and ids_plan.
ReadPlan ==
    /\ pc = "start"
    /\ ~EnsureRaises(rows, cols)
    /\ conn' = "open"
    /\ LET df == ensure_id_tipo(tipos, rows, cols)
       IN  /\ df_tt' = FrameTT(df)
           /\ df_tl' = FrameTL(df, cols)
           /\ ids_plan' = UniqueIds(df, {})
           /\ diag' = diag \cup EnsureWarning(df, cols)
    /\ pc' = "check"
    /\ UNCHANGED <<fixedVars, storeVars, existentes, faltam_all, mapa, sem_mapa,
                   to_do, i, upd_tt, upd_tl, outcome, exit_code,
                   stmts, store0, seed0, calls>>

\* Lines 428-436 and 503-505: the sheet is read, the connection opened, and
\* ensure_id_tipo raises; the exception leaves through conn.close().
ConfigError ==
    /\ pc = "start"
    /\ EnsureRaises(rows, cols)
    /\ Close("error", 1)
    /\ UNCHANGED <<fixedVars, localVars, histVars>>

\* Lines 447-450: what exists in TT and what is missing.
CheckExisting ==
    /\ pc = "check"
    /\ existentes' = fetch_existing_idtipos(TT, ids_plan)
    /\ faltam_all' = SortedInts(Range(ids_plan) \ existentes')
    /\ pc' = "guard"
    /\ UNCHANGED <<fixedVars, storeVars, df_tt, df_tl, ids_plan, mapa, sem_mapa,
                   to_do, i, upd_tt, upd_tl, endVars, histVars>>

\* RatioExceeded with >= for >: a run exactly at the threshold aborts.
RatioExceededAtThreshold(nMissing, nIds, pct) == nMissing * 100 >= pct * nIds

\* missing_ratio > args.abort_if_missing_ratio, the threshold in hundredths.
RatioExceeded(nMissing, nIds, pct) == nMissing * 100 > pct * nIds

\* Lines 453-457: the missing-ratio guard.
RatioGuard ==
    /\ pc = "guard"
    /\ IF /\ ids_plan # <<>>
          /\ ~args.auto_seed
          /\ RatioExceeded(Len(faltam_all), Len(ids_plan), args.abort_pct)
       THEN Close("abort_ratio", 0)
       ELSE /\ pc' = "seed_gate"
            /\ UNCHANGED <<storeVars, endVars>>
    /\ UNCHANGED <<fixedVars, localVars, histVars>>

\* CapExceeded off by one: one missing id more than the cap passes.
CapExceededOffByOne(nMissing, cap) == nMissing > cap + 1

\* len(faltam_all) > args.max_seed
CapExceeded(nMissing, cap) == nMissing > cap

\* Lines 460-463: the seed-cap guard.
SeedGate ==
    /\ pc = "seed_gate"
    /\ IF args.auto_seed /\ Len(faltam_all) > 0
       THEN IF CapExceeded(Len(faltam_all), args.max_seed)
            THEN Close("abort_cap", 0)
            ELSE /\ pc' = "resolve"
                 /\ UNCHANGED <<storeVars, endVars>>
       ELSE /\ pc' = "filter"
            /\ UNCHANGED <<storeVars, endVars>>
    /\ UNCHANGED <<fixedVars, localVars, histVars>>

\* Lines 475-479: the fallback content id for the ids the table does not map.
WithDefault(m, unmapped, dflt) ==
    IF dflt # NoDefault /\ unmapped # {}
    THEN [id \in (DOMAIN m) \cup unmapped |-> IF id \in unmapped THEN dflt ELSE m[id]]
    ELSE m

\* Lines 466-479: content ids of the missing ids; line 472 logs how many have
\* none.
Resolve ==
    /\ pc = "resolve"
    /\ LET m        == resolve_idconteudo(mapTable, faltam_all, args.pick)
           unmapped == Range(faltam_all) \ DOMAIN m
       IN  /\ mapa' = WithDefault(m, unmapped, args.default_idconteudo)
           /\ sem_mapa' = IF args.default_idconteudo # NoDefault /\ unmapped # {}
                          THEN <<>> ELSE SortedInts(unmapped)
           /\ diag' = diag \cup {LogLine("Sem IdConteudo", Cardinality(unmapped), <<>>, FALSE)}
    /\ pc' = IF caller = "main" THEN "seed" ELSE "resolved"
    /\ UNCHANGED <<fixedVars, storeVars, df_tt, df_tl, ids_plan, existentes,
                   faltam_all, to_do, i, upd_tt, upd_tl, endVars,
                   stmts, store0, seed0, calls>>

(***************************************************************************)
(* seed_missing(conn, dest_db, mapa, dry_run).                             *)
(***************************************************************************)
\* Where seed_missing returns to.
SeedReturn == IF caller = "main" THEN "after_seed" ELSE "seed_returned"

\* A write statement that was executed: n is the number of rows it touched.
Stmt(op, tbl, id, n) == [op |-> op, tbl |-> tbl, id |-> id, n |-> n]

\* Lines 195-209: nothing to do, or the dry-run preview, or BEGIN TRAN.
SeedEnter ==
    /\ pc = "seed"
    /\ calls' = calls + 1
    /\ seed0' = [TT |-> TT, TL |-> TL]
    /\ IF mapa = <<>>
       THEN /\ pc' = SeedReturn
            /\ UNCHANGED <<to_do, i>>
       ELSE /\ to_do' = ToDo(mapa)
            /\ IF args.dry_run
               THEN pc' = SeedReturn /\ UNCHANGED i
               ELSE pc' = "seed_tt" /\ i' = 1
    /\ UNCHANGED <<fixedVars, storeVars, df_tt, df_tl, ids_plan, existentes,
                   faltam_all, mapa, sem_mapa, upd_tt, upd_tl, endVars,
                   stmts, store0, diag>>

\* The table holds a second row for the id.  Whether idTipo is a unique key
\* is the schema's business: a store that has the key fails the statement.
Duplicated(t, id) == Cardinality(Matching(t, id)) > 1

\* Where a seeding statement leaves seed_missing: at the next statement, or in
\* the except block when the store rejected a duplicate.
AfterInsert(t, id, next) ==
    IF Duplicated(t, id) THEN {next, "seed_except"} ELSE {next}

\* Lines 213-218: the base row of TT, unless the id has one.
SeedInsertTT ==
    /\ pc = "seed_tt"
    /\ TT' = InsertIfNotExists(TT, SeedRowTT(to_do[i][1], to_do[i][2]))
    /\ stmts' = Append(stmts, Stmt("INSERT", "TT", to_do[i][1], Len(TT') - Len(TT)))
    /\ pc' \in AfterInsert(TT', to_do[i][1], "seed_tl")
    /\ UNCHANGED <<fixedVars, TL, durable, localVars, endVars, store0, seed0, calls, diag>>

\* Lines 220-225: the base row of TL, unless the id has one; next pair.
SeedInsertTL ==
    /\ pc = "seed_tl"
    /\ TL' = InsertIfNotExists(TL, SeedRowTL(to_do[i][1], to_do[i][2]))
    /\ stmts' = Append(stmts, Stmt("INSERT", "TL", to_do[i][1], Len(TL') - Len(TL)))
    /\ i' = i + 1
    /\ pc' \in AfterInsert(TL', to_do[i][1],
                           IF i = Len(to_do) THEN "seed_commit" ELSE "seed_tt")
    /\ UNCHANGED <<fixedVars, TT, durable, df_tt, df_tl, ids_plan, existentes,
                   faltam_all, mapa, sem_mapa, to_do, upd_tt, upd_tl, endVars,
                   store0, seed0, calls, diag>>

\* Line 226: cur.execute("COMMIT;").  The connection is in pyodbc's manual-commit
\* mode, where the driver has a transaction open already and a T-SQL COMMIT may
\* only close the nested one: the seeds are permanent now, or only at the next
\* conn.commit().
SeedCommit ==
    /\ pc = "seed_commit"
    /\ durable' \in {durable, [TT |-> TT, TL |-> TL]}
    /\ pc' = SeedReturn
    /\ UNCHANGED <<fixedVars, TT, TL, localVars, endVars, histVars>>

\* RolledBack without the ROLLBACK: the batch's inserts stay.
RolledBackNothing(committed, current) == current

\* The table after ROLLBACK: the last committed one.
RolledBack(committed, current) == committed

\* Lines 227-229: a statement of the batch raised; ROLLBACK, then re-raise.
SeedError ==
    /\ pc \in {"seed_tt", "seed_tl", "seed_commit", "seed_except"}
    /\ TT' = RolledBack(durable.TT, TT)
    /\ TL' = RolledBack(durable.TL, TL)
    /\ pc' = "seed_raised"
    /\ UNCHANGED <<fixedVars, durable, localVars, endVars, histVars>>

(***************************************************************************)
(* main(), after seed_missing.                                             *)
(***************************************************************************)
\* The ids a log line shows.
PreviewMax == 20

\* Preview that shows every id.
PreviewAll(ids) == ids

\* ids[:20]
Preview(ids) == IF Len(ids) <= PreviewMax THEN ids ELSE SubSeq(ids, 1, PreviewMax)

\* Lines 483-491: the ids left without content id are logged; a dry run ends
\* here; otherwise existence is checked again.
AfterSeed ==
    /\ pc = "after_seed"
    /\ diag' = IF sem_mapa = <<>> THEN diag
               ELSE diag \cup {LogLine("tratar manualmente", Len(Preview(sem_mapa)),
                                        Preview(sem_mapa), Len(sem_mapa) > PreviewMax)}
    /\ IF args.dry_run
       THEN /\ Close("dry_run", 0)
            /\ UNCHANGED existentes
       ELSE /\ existentes' = fetch_existing_idtipos(TT, ids_plan)
            /\ pc' = "filter"
            /\ UNCHANGED <<storeVars, endVars>>
    /\ UNCHANGED <<fixedVars, df_tt, df_tl, ids_plan, faltam_all, mapa, sem_mapa,
                   to_do, i, upd_tt, upd_tl, stmts, store0, seed0, calls>>

\* Lines 494-495: only the rows whose id exists are kept, in both frames.
Filter ==
    /\ pc = "filter"
    /\ df_tt' = SelectRows(df_tt, existentes)
    /\ df_tl' = SelectRows(df_tl, existentes)
    /\ i' = 1
    /\ pc' = "upd_tt"
    /\ UNCHANGED <<fixedVars, storeVars, ids_plan, existentes, faltam_all, mapa,
                   sem_mapa, to_do, upd_tt, upd_tl, endVars, histVars>>

\* Lines 347-357: one UPDATE of update_textos.
UpdateTextosRow ==
    /\ pc = "upd_tt"
    /\ i <= Len(df_tt)
    /\ LET r == df_tt[i]
       IN  /\ TT' = UpdateTT(TT, r.idTipo, SqlText(r.TextoPrimario), SqlText(r.TextoSecundario))
           /\ upd_tt' = upd_tt + RowCount(TT, r.idTipo)
           /\ stmts' = Append(stmts, Stmt("UPDATE", "TT", r.idTipo, RowCount(TT, r.idTipo)))
    /\ i' = i + 1
    /\ UNCHANGED <<fixedVars, TL, durable, pc, df_tt, df_tl, ids_plan, existentes,
                   faltam_all, mapa, sem_mapa, to_do, upd_tl, endVars,
                   store0, seed0, calls, diag>>

\* Committed without the commit: the pass's updates stay uncommitted.
CommittedNever(d, t, l, frame) == d

\* What is committed after a pass over frame: "if df.empty: return 0" skips an
\* empty frame; otherwise conn.commit() makes the connection's tables permanent.
Committed(d, t, l, frame) == IF frame = <<>> THEN d ELSE [TT |-> t, TL |-> l]

\* Lines 358-360 and 498: conn.commit() after the last row; an empty frame is
\* skipped without a commit.
UpdateTextosEnd ==
    /\ pc = "upd_tt"
    /\ i > Len(df_tt)
    /\ durable' = Committed(durable, TT, TL, df_tt)
    /\ i' = 1
    /\ pc' = "upd_tl"
    /\ UNCHANGED <<fixedVars, TT, TL, df_tt, df_tl, ids_plan, existentes, faltam_all,
                   mapa, sem_mapa, to_do, upd_tt, upd_tl, endVars, histVars>>

\* Lines 371-381: one UPDATE of update_titulos.
UpdateTitulosRow ==
    /\ pc = "upd_tl"
    /\ i <= Len(df_tl)
    /\ LET r == df_tl[i]
       IN  /\ TL' = UpdateTL(TL, r.idTipo, SqlText(r.TextoTitle), SqlText(r.TextoMetaDescription))
           /\ upd_tl' = upd_tl + RowCount(TL, r.idTipo)
           /\ stmts' = Append(stmts, Stmt("UPDATE", "TL", r.idTipo, RowCount(TL, r.idTipo)))
    /\ i' = i + 1
    /\ UNCHANGED <<fixedVars, TT, durable, pc, df_tt, df_tl, ids_plan, existentes,
                   faltam_all, mapa, sem_mapa, to_do, upd_tt, endVars,
                   store0, seed0, calls, diag>>

\* Lines 382-384 and 499.
UpdateTitulosEnd ==
    /\ pc = "upd_tl"
    /\ i > Len(df_tl)
    /\ durable' = Committed(durable, TT, TL, df_tl)
    /\ pc' = "finish"
    /\ UNCHANGED <<fixedVars, TT, TL, localVars, endVars, histVars>>

\* Lines 500-505: "Concluído.", conn.close().
Finish ==
    /\ pc = "finish"
    /\ Close("done", 0)
    /\ UNCHANGED <<fixedVars, localVars, histVars>>

\* A statement about to be executed outside seed_missing's try block.
AtStatement ==
    \/ pc = "check" /\ ids_plan # <<>>
    \/ pc = "resolve"
    \/ pc = "after_seed" /\ ~args.dry_run
    \/ pc = "upd_tt" /\ df_tt # <<>>
    \/ pc = "upd_tl" /\ df_tl # <<>>

\* The store fails a statement (or the exception of seed_missing arrives):
\* the exception leaves main() through "finally: conn.close()".
StoreError ==
    /\ AtStatement \/ pc = "seed_raised"
    /\ caller = "main"
    /\ Close("error", 1)
    /\ UNCHANGED <<fixedVars, localVars, histVars>>

Next ==
    \/ NoFile \/ ReadPlan \/ CheckExisting \/ RatioGuard \/ SeedGate \/ Resolve
    \/ SeedEnter \/ SeedInsertTT \/ SeedInsertTL \/ SeedCommit \/ SeedError
    \/ AfterSeed \/ Filter
    \/ UpdateTextosRow \/ UpdateTextosEnd \/ UpdateTitulosRow \/ UpdateTitulosEnd
    \/ Finish \/ StoreError

vars == <<coreVars, watchVars>>

Spec == InitRun /\ [][Next]_vars

(***************************************************************************)
(* Runs over sheets with more missing ids than a log line shows.           *)
(***************************************************************************)
MaxManyIds == 22

\* The sheet with one row for each of the ids 1..n.
ManyRows(n) ==
    [k \in 1..n |->
        [id_tipo |-> k, id_cat |-> NA, id_grupo |-> NA,
         TextoPrimario |-> TextPair(k)[1], TextoSecundario |-> TextPair(k)[2],
         TextoTitle |-> "T" \o ToString(k), TextoMeta |-> "M" \o ToString(k)]]

\* A run with --auto-seed over an empty store: every id of the sheet is
\* missing, the ids up to k have content ids in the mapping table.
InitMany ==
    /\ WatcherOff
    /\ \E n \in 0..MaxManyIds : \E k \in 0..n :
          /\ rows = ManyRows(n)
          /\ mapTable = MapTableUpTo(k, n)
    /\ cols = {"id_tipo", "Texto Title", "Texto Meta Description"}
    /\ tipos = <<>>
    /\ conn = "none"
    /\ \E dry \in BOOLEAN : \E dflt \in {NoDefault, 1} :
          args = [auto_seed |-> TRUE, dry_run |-> dry, max_seed |-> DefaultMaxSeed,
                  abort_pct |-> DefaultAbortPct, pick |-> "max",
                  default_idconteudo |-> dflt]
    /\ TT = <<>> /\ TL = <<>>
    /\ durable = [TT |-> TT, TL |-> TL]
    /\ store0 = durable
    /\ seed0 = durable
    /\ caller = "main"
    /\ pc = "start"
    /\ faltam_all = <<>> /\ mapa = <<>>
    /\ InitLocals
    /\ ids_plan = <<>>

SpecMany == InitMany /\ [][Next]_vars

(***************************************************************************)
(* Runs without --auto-seed over sheets that have no id_tipo column.       *)
(***************************************************************************)
MaxTipos == 2

\* The categories and groups of the model.
Cats == {1, 2}
Grupos == {1}

\* The rows of PROCESSADO_BUSCA_TIPOS.
TiposRows == {<<c, g, id>> : c \in Cats, g \in Grupos, id \in IdTipos}

\* What SELECT DISTINCT can return: distinct rows, in any order.
RECURSIVE TiposOfLen(_)
TiposOfLen(n) ==
    IF n = 0 THEN {<<>>}
    ELSE {Append(t, r) : t \in TiposOfLen(n - 1), r \in TiposRows}

TiposTables ==
    {t \in UNION {TiposOfLen(n) : n \in 0..MaxTipos} :
        \A a, b \in DOMAIN t : a # b => t[a] # t[b]}

\* Row k of a sheet with the given columns: a cell of an absent column is NA,
\* one of id_cat or id_grupo may be blank or text (NA).
CatRows(k, columns) ==
    {[id_tipo |-> NA, id_cat |-> c, id_grupo |-> g,
      TextoPrimario |-> TextPair(k)[1], TextoSecundario |-> TextPair(k)[2],
      TextoTitle |-> "T" \o ToString(k), TextoMeta |-> "M" \o ToString(k)] :
        c \in IF "id_cat" \in columns THEN Cats \cup {NA} ELSE {NA},
        g \in IF "id_grupo" \in columns THEN Grupos \cup {NA} ELSE {NA}}

RECURSIVE CatSheetsOfLen(_, _)
CatSheetsOfLen(n, columns) ==
    IF n = 0 THEN {<<>>}
    ELSE {Append(sh, r) : sh \in CatSheetsOfLen(n - 1, columns), r \in CatRows(n, columns)}

InitIds ==
    /\ WatcherOff
    /\ \E S \in SUBSET {"id_cat", "id_grupo"} :
       \E T \in {{}, {"Texto Title", "Texto Meta Description"}} : cols = S \cup T
    /\ \E n \in 1..MaxRows : rows \in CatSheetsOfLen(n, cols)
    /\ tipos \in TiposTables
    /\ \E ett \in SUBSET IdTipos : \E etl \in SUBSET ett :
          /\ TT = TableTT(ett)
          /\ TL = TableTL(etl)
    /\ durable = [TT |-> TT, TL |-> TL]
    /\ store0 = durable
    /\ seed0 = durable
    /\ args = [auto_seed |-> FALSE, dry_run |-> FALSE, max_seed |-> DefaultMaxSeed,
               abort_pct |-> 100, pick |-> "min", default_idconteudo |-> NoDefault]
    /\ mapTable = <<>>
    /\ conn = "none"
    /\ caller = "main"
    /\ pc = "start"
    /\ faltam_all = <<>> /\ mapa = <<>>
    /\ InitLocals
    /\ ids_plan = <<>>

NextIds ==
    \/ NoFile \/ ConfigError \/ ReadPlan \/ CheckExisting \/ RatioGuard \/ SeedGate
    \/ Filter
    \/ UpdateTextosRow \/ UpdateTextosEnd \/ UpdateTitulosRow \/ UpdateTitulosEnd
    \/ Finish \/ StoreError

SpecIds == InitIds /\ [][NextIds]_vars

(***************************************************************************)
(* Runs over sheets whose title and meta cells are blank, short or longer  *)
(* than the limits of build_frames.                                        *)
(***************************************************************************)
RECURSIVE Repeat(_, _)
\* ch * n
Repeat(ch, n) ==
    IF n = 0 THEN ""
    ELSE LET half == Repeat(ch, n \div 2)
         IN  IF n % 2 = 0 THEN half \o half ELSE half \o half \o ch

\* A title one character over TitleMax, a meta description one over MetaMax.
LongTitle == Repeat("t", TitleMax + 1)
LongMeta == Repeat("m", MetaMax + 1)

\* Row k of such a sheet: a blank (NaN), a short or an overlong title and meta
\* cell.
CellRows(k) ==
    {[id_tipo |-> id, id_cat |-> NA, id_grupo |-> NA,
      TextoPrimario |-> TextPair(k)[1], TextoSecundario |-> TextPair(k)[2],
      TextoTitle |-> t, TextoMeta |-> m] :
        id \in IdTipos,
        t \in {NULL, "T" \o ToString(k), LongTitle},
        m \in {NULL, "M" \o ToString(k), LongMeta}}

RECURSIVE CellSheetsOfLen(_)
CellSheetsOfLen(n) ==
    IF n = 0 THEN {<<>>}
    ELSE {Append(sh, r) : sh \in CellSheetsOfLen(n - 1), r \in CellRows(n)}

InitCells ==
    /\ WatcherOff
    /\ \E n \in 1..MaxRows : rows \in CellSheetsOfLen(n)
    /\ \E T \in (SUBSET {"Texto Title", "Texto Meta Description"}) \ {{}} :
          cols = {"id_tipo"} \cup T
    /\ tipos = <<>>
    /\ \E ett \in SUBSET IdTipos : \E etl \in SUBSET ett :
          /\ TT = TableTT(ett)
          /\ TL = TableTL(etl)
    /\ durable = [TT |-> TT, TL |-> TL]
    /\ store0 = durable
    /\ seed0 = durable
    /\ args = [auto_seed |-> FALSE, dry_run |-> FALSE, max_seed |-> DefaultMaxSeed,
               abort_pct |-> 100, pick |-> "min", default_idconteudo |-> NoDefault]
    /\ mapTable = <<>>
    /\ conn = "none"
    /\ caller = "main"
    /\ pc = "start"
    /\ faltam_all = <<>> /\ mapa = <<>>
    /\ InitLocals
    /\ ids_plan = <<>>

NextCells ==
    \/ NoFile \/ ReadPlan \/ CheckExisting \/ RatioGuard \/ SeedGate \/ Filter
    \/ UpdateTextosRow \/ UpdateTextosEnd \/ UpdateTitulosRow \/ UpdateTitulosEnd
    \/ Finish \/ StoreError

SpecCells == InitCells /\ [][NextCells]_vars

(***************************************************************************)
(* Runs over sheets without id_tipo whose pairs share a category or a      *)
(* group, and over sheets with more unmapped pairs than the warning shows. *)
(***************************************************************************)
PairCats == {1, 2}
PairGrupos == {1, 2}

\* The pairs PROCESSADO_BUSCA_TIPOS may map in these runs, in the order its
\* rows are returned.
MappedPairs == <<<<1, 1>>, <<1, 2>>, <<2, 1>>>>

RECURSIVE PairTablesOfLen(_)
\* Each of the first n pairs is mapped to one identifier or to none.
PairTablesOfLen(n) ==
    IF n = 0 THEN {<<>>}
    ELSE {t \o new : t \in PairTablesOfLen(n - 1),
                     new \in {<<>>} \cup {<<<<MappedPairs[n][1], MappedPairs[n][2], id>>>> :
                                             id \in IdTipos}}

\* Row k of a sheet with the columns id_cat and id_grupo; the id_cat cell may
\* be blank or text (NA).
PairRows(k) ==
    {[id_tipo |-> NA, id_cat |-> c, id_grupo |-> g,
      TextoPrimario |-> TextPair(k)[1], TextoSecundario |-> TextPair(k)[2],
      TextoTitle |-> "T" \o ToString(k), TextoMeta |-> "M" \o ToString(k)] :
        c \in PairCats \cup {NA}, g \in PairGrupos}

RECURSIVE PairSheetsOfLen(_)
PairSheetsOfLen(n) ==
    IF n = 0 THEN {<<>>}
    ELSE {Append(sh, r) : sh \in PairSheetsOfLen(n - 1), r \in PairRows(n)}

\* The sheet with one row for each of the pairs (1, 1) .. (n, 1).
ManyPairs(n) ==
    [k \in 1..n |->
        [id_tipo |-> NA, id_cat |-> k, id_grupo |-> 1,
         TextoPrimario |-> TextPair(k)[1], TextoSecundario |-> TextPair(k)[2],
         TextoTitle |-> "T" \o ToString(k), TextoMeta |-> "M" \o ToString(k)]]

InitPairs ==
    /\ WatcherOff
    /\ cols = {"id_cat", "id_grupo", "Texto Title", "Texto Meta Description"}
    /\ \/ /\ \E n \in 1..MaxRows : rows \in PairSheetsOfLen(n)
          /\ tipos \in PairTablesOfLen(Len(MappedPairs))
       \/ /\ \E n \in PairsMax..MaxManyIds : rows = ManyPairs(n)
          /\ tipos \in PairTablesOfLen(1)
    \* every identifier has its records, or none has
    /\ \E ett \in {{}, IdTipos} :
          /\ TT = TableTT(ett)
          /\ TL = TableTL(ett)
    /\ durable = [TT |-> TT, TL |-> TL]
    /\ store0 = durable
    /\ seed0 = durable
    /\ \E seed \in BOOLEAN :
          args = [auto_seed |-> seed, dry_run |-> FALSE, max_seed |-> DefaultMaxSeed,
                  abort_pct |-> 100, pick |-> "min", default_idconteudo |-> NoDefault]
    /\ mapTable = MapTableUpTo(MaxId, MaxId)
    /\ conn = "none"
    /\ caller = "main"
    /\ pc = "start"
    /\ faltam_all = <<>> /\ mapa = <<>>
    /\ InitLocals
    /\ ids_plan = <<>>

NextPairs == Next \/ ConfigError

SpecPairs == InitPairs /\ [][NextPairs]_vars

(***************************************************************************)
(* seed_missing called twice with one mapping, on any store.               *)
(***************************************************************************)
\* The watcher's flags (BASE_AUTOMACAO_FLAGS) without --default-idconteudo.
LiveArgs ==
    [auto_seed |-> TRUE, dry_run |-> FALSE, max_seed |-> 15, abort_pct |-> 100,
     pick |-> "min", default_idconteudo |-> NoDefault]

\* The content ids of the mapping tables and mappings of the model.
ContentIds == {1, 3, 7}

\* The id-to-content-id mappings: a content id for some of the ids.
Mappings == UNION {[S -> ContentIds] : S \in SUBSET IdTipos}

\* Live seed_missing(conn, dest_db, mapa) about to be called by a caller that
\* is not main(): any mapping; any store, each table with the rows of any set
\* of ids, nothing uncommitted.
InitSeed ==
    /\ WatcherOff
    /\ rows = <<>> /\ cols = {} /\ mapTable = <<>> /\ tipos = <<>>
    /\ conn = "open"
    /\ args = LiveArgs
    /\ caller = "twice"
    /\ \E ett \in SUBSET IdTipos : \E etl \in SUBSET IdTipos :
          /\ TT = TableTT(ett)
          /\ TL = TableTL(etl)
    /\ durable = [TT |-> TT, TL |-> TL]
    /\ store0 = durable
    /\ seed0 = durable
    /\ InitLocals
    /\ ids_plan = <<>>
    /\ faltam_all = <<>>
    /\ mapa \in Mappings
    /\ pc = "seed"

\* The caller calls seed_missing a second time with the same mapping.
SeedAgain ==
    /\ pc = "seed_returned"
    /\ calls = 1
    /\ pc' = "seed"
    /\ UNCHANGED <<fixedVars, storeVars, localVars, endVars, histVars>>

NextSeed ==
    \/ SeedEnter \/ SeedInsertTT \/ SeedInsertTL \/ SeedCommit \/ SeedAgain

SpecSeed == InitSeed /\ [][NextSeed]_vars

(***************************************************************************)
(* resolve_idconteudo called, repeatedly, on mapping tables of any content *)
(* and row order.                                                          *)
(***************************************************************************)
MaxMapRows == 3

\* The rows a mapping table can hold: <<idTipo, content id or NULL>>.
MapRows == {<<id, c>> : id \in IdTipos, c \in ContentIds \cup {NULLID}}

RECURSIVE MapTablesOfLen(_)
MapTablesOfLen(n) ==
    IF n = 0 THEN {<<>>}
    ELSE {Append(m, r) : m \in MapTablesOfLen(n - 1), r \in MapRows}

\* resolve_idconteudo(conn, map_table, missing_ids, pick) about to be called.
InitResolve ==
    /\ WatcherOff
    /\ rows = <<>> /\ cols = {} /\ tipos = <<>>
    /\ conn = "open"
    /\ \E n \in 0..MaxMapRows : mapTable \in MapTablesOfLen(n)
    /\ \E p \in {"min", "max"} : args = [LiveArgs EXCEPT !.pick = p]
    /\ caller = "resolve"
    /\ TT = <<>> /\ TL = <<>>
    /\ durable = [TT |-> TT, TL |-> TL]
    /\ store0 = durable
    /\ seed0 = durable
    /\ InitLocals
    /\ ids_plan = <<>>
    /\ mapa = <<>>
    /\ \E S \in SUBSET IdTipos : faltam_all = SortedInts(S)
    /\ pc = "resolve"

\* The table's rows come back in another order: two neighbours swapped.
Reorder ==
    /\ pc = "resolved"
    /\ \E k \in 1..(Len(mapTable) - 1) :
          /\ mapTable[k] # mapTable[k + 1]
          /\ mapTable' = [mapTable EXCEPT ![k] = mapTable[k + 1], ![k + 1] = mapTable[k]]
    /\ pc' = "resolve"
    /\ UNCHANGED <<rows, cols, args, caller, tipos, watchVars, storeVars, localVars,
                   endVars, histVars>>

\* The same call again.
ResolveAgain ==
    /\ pc = "resolved"
    /\ pc' = "resolve"
    /\ UNCHANGED <<fixedVars, storeVars, localVars, endVars, histVars>>

NextResolve == Resolve \/ Reorder \/ ResolveAgain

SpecResolve == InitResolve /\ [][NextResolve]_vars

(***************************************************************************)
(* fetch_existing_idtipos called on lists of ids shorter and longer than a *)
(* chunk, one SELECT at a step.                                            *)
(***************************************************************************)
\* The lengths of the lists: around one chunk and around two.
FetchLens ==
    {0, 1, ChunkSize - 1, ChunkSize, ChunkSize + 1, 2 * ChunkSize, 2 * ChunkSize + 1}

\* The lists of n ids: 1..n ascending, descending, and with every id twice.
IdLists(n) ==
    {[k \in 1..n |-> k], [k \in 1..n |-> n + 1 - k], [k \in 1..n |-> (k + 1) \div 2]}

\* The ids the Texts table may hold: at the ends of the chunks and beyond
\* every list.
StoredIds ==
    {1, ChunkSize, ChunkSize + 1, 2 * ChunkSize + 1, 3 * ChunkSize}

InitFetch ==
    /\ WatcherOff
    /\ rows = <<>> /\ cols = {} /\ tipos = <<>> /\ mapTable = <<>>
    /\ conn = "open"
    /\ args = LiveArgs
    /\ caller = "fetch"
    /\ \E S \in SUBSET StoredIds :
          /\ TT = TableTT(S)
          /\ TL = <<>>
    /\ durable = [TT |-> TT, TL |-> TL]
    /\ store0 = durable
    /\ seed0 = durable
    /\ InitLocals
    /\ faltam_all = <<>> /\ mapa = <<>>
    /\ pc = "fetch"
    /\ \E n \in FetchLens : ids_plan \in IdLists(n)

\* ids[i:i+1000] that leaves out the last id of a full chunk.
ChunkShort(ids, from, size) ==
    SubSeq(ids, from + 1, IF from + size - 1 < Len(ids) THEN from + size - 1 ELSE Len(ids))

\* ids[i:i+1000], with i counted from 0.
Chunk(ids, from, size) ==
    SubSeq(ids, from + 1, IF from + size < Len(ids) THEN from + size ELSE Len(ids))

\* Lines 142-145: "if not ids: return set()", else the cursor and the empty
\* result.
FetchEnter ==
    /\ pc = "fetch"
    /\ existentes' = {}
    /\ i' = 0
    /\ pc' = IF ids_plan = <<>> THEN "fetched" ELSE "fetch_loop"
    /\ UNCHANGED <<fixedVars, storeVars, df_tt, df_tl, ids_plan, faltam_all, mapa,
                   sem_mapa, to_do, upd_tt, upd_tl, endVars, histVars>>

\* Lines 146-152: one pass of "for i in range(0, len(ids), 1000)": the SELECT
\* over the chunk, and its rows added to the result.  The SELECT is recorded
\* with the chunk's length and the number of rows it returned.
FetchChunk ==
    /\ pc = "fetch_loop"
    /\ i < Len(ids_plan)
    /\ LET chunk == Chunk(ids_plan, i, ChunkSize)
           found == {TT[k].idTipo : k \in {j \in DOMAIN TT : TT[j].idTipo \in Range(chunk)}}
       IN  /\ existentes' = existentes \cup found
           /\ stmts' = Append(stmts, Stmt("SELECT", "TT", Len(chunk), Cardinality(found)))
    /\ i' = i + ChunkSize
    /\ UNCHANGED <<fixedVars, storeVars, pc, df_tt, df_tl, ids_plan, faltam_all, mapa,
                   sem_mapa, to_do, upd_tt, upd_tl, endVars, store0, seed0, calls, diag>>

\* Lines 153-154: the range is used up; the result is returned.
FetchReturn ==
    /\ pc = "fetch_loop"
    /\ i >= Len(ids_plan)
    /\ pc' = "fetched"
    /\ UNCHANGED <<fixedVars, storeVars, localVars, endVars, histVars>>

NextFetch == FetchEnter \/ FetchChunk \/ FetchReturn

SpecFetch == InitFetch /\ [][NextFetch]_vars

(***************************************************************************)
(* watch_run.py: the loop that polls the Drive folder and runs the         *)
(* importer on the newest spreadsheet.                                     *)
(***************************************************************************)
\* The Drive file ids, content checksums and modification times of the model.
FileIds == {"f1", "f2"}
NoMd5 == "none"
Md5s == {NoMd5, "a", "b"}
MTimes == {"t1", "t2"}

\* What files().list returns: no file, or the newest one.
DriveFiles == [id : FileIds, modifiedTime : MTimes, md5Checksum : Md5s]
Listings == {<<>>} \cup {<<x>> : x \in DriveFiles}

\* cur_info, lines 205-210 (the fields should_process reads).
CurInfo(file) == [modifiedTime |-> file.modifiedTime, md5Checksum |-> file.md5Checksum]

\* processed.get(fid): <<>> for None.
Get(p, fid) == IF fid \in DOMAIN p THEN <<p[fid]>> ELSE <<>>

\* processed[fid] = cur_info
Put(p, fid, info) == [x \in (DOMAIN p) \cup {fid} |-> IF x = fid THEN info ELSE p[x]]

\* should_process that compares the modification time only.
should_processByTime(prev_info, current_info) ==
    IF prev_info = <<>> THEN TRUE
    ELSE current_info.modifiedTime # prev_info[1].modifiedTime

should_process(prev_info, current_info) ==
    IF prev_info = <<>> THEN TRUE
    ELSE LET prev_md5 == prev_info[1].md5Checksum
             cur_md5  == current_info.md5Checksum
         IN  IF cur_md5 # NoMd5 /\ prev_md5 # NoMd5 /\ cur_md5 # prev_md5 THEN TRUE
             ELSE IF cur_md5 = NoMd5
                  THEN current_info.modifiedTime # prev_info[1].modifiedTime
                  ELSE FALSE

\* main() up to the loop: load_processed() of a first start, any folder.
InitWatch ==
    /\ rows = <<>> /\ cols = {} /\ mapTable = <<>> /\ tipos = <<>>
    /\ conn = "none"
    /\ args = LiveArgs
    /\ caller = "watcher"
    /\ TT = <<>> /\ TL = <<>>
    /\ durable = [TT |-> TT, TL |-> TL]
    /\ store0 = durable
    /\ seed0 = durable
    /\ InitLocals
    /\ ids_plan = <<>>
    /\ faltam_all = <<>> /\ mapa = <<>>
    /\ pc = "off"
    /\ disk = EmptyMap
    /\ processed = disk
    /\ drive \in Listings
    /\ f = <<>>
    /\ should_stop = FALSE
    /\ decision = "none"
    /\ reloaded = FALSE
    /\ slept = 0
    /\ running = 0 /\ started = 0 /\ failed = <<>> /\ ended = "none"
    /\ fname = <<>> /\ safe_name = <<>> /\ local_path = <<>>
    /\ w_pc = "poll"

\* Lines 195-198: "while not _should_stop", then the newest .xlsx of the folder.
Poll ==
    /\ w_pc = "poll"
    /\ IF should_stop
       THEN w_pc' = "stopped" /\ UNCHANGED f
       ELSE /\ f' = drive
            /\ w_pc' = IF drive = <<>> THEN "sleep" ELSE "decide"
    /\ decision' = "none"
    /\ started' = 0
    /\ ended' = "none"
    /\ UNCHANGED <<coreVars, fname, safe_name, local_path, processed, disk, drive, should_stop, reloaded, slept,
                   running, failed>>

\* Lines 211-213: should_process(processed.get(fid), cur_info).
Decide ==
    /\ w_pc = "decide"
    /\ IF should_process(Get(processed, f[1].id), CurInfo(f[1]))
       THEN decision' = "run" /\ w_pc' = "download"
       ELSE decision' = "skip" /\ w_pc' = "sleep"
    /\ UNCHANGED <<coreVars, fname, safe_name, local_path, processed, disk, drive, f, should_stop, reloaded, slept,
                   running, started, failed, ended>>

\* Line 217: download_xlsx; an exception is logged (line 225).  Otherwise
\* run_automacao is called (line 218) and subprocess.run starts the importer.
Download ==
    /\ w_pc = "download"
    /\ \/ /\ w_pc' = "sleep"
          /\ UNCHANGED <<running, started>>
       \/ /\ w_pc' = "invoke"
          /\ running' = running + 1
          /\ started' = started + 1
    /\ UNCHANGED <<coreVars, fname, safe_name, local_path, processed, disk, drive, f, should_stop, decision, reloaded, slept,
                   failed, ended>>

\* A run that is left behind running, as subprocess.Popen would leave it.
Detached(n) == n

\* subprocess.run waits for the importer: when it returns, that run is over.
Returned(n) == n - 1

\* The ways a run of AutomacaoBanco.py ends, and the exit code of each: the
\* returns of main() (completed, dry run, guard aborts) end with 0, an
\* exception with 1, sys.exit(2) with 2.
Endings == {"done", "dry_run", "abort_ratio", "abort_cap", "error", "no_file"}

ExitCodeOf(how) == IF how = "error" THEN 1 ELSE IF how = "no_file" THEN 2 ELSE 0

\* Raises that lets the exit code 2 pass.
RaisesOnOne(returncode) == returncode = 1

\* Line 164: "if r.returncode != 0: raise RuntimeError(...)".
Raises(returncode) == returncode # 0

\* Lines 218 and 150-165: AutomacaoBanco.py runs; a return code other than 0
\* raises, and the file is not recorded.
RunAutomacao ==
    /\ w_pc = "invoke"
    /\ \E how \in Endings :
          /\ ended' = how
          /\ w_pc' = IF Raises(ExitCodeOf(how)) THEN "sleep" ELSE "record"
          /\ failed' = IF Raises(ExitCodeOf(how)) THEN f ELSE <<>>
    /\ running' = Returned(running)
    /\ UNCHANGED <<coreVars, fname, safe_name, local_path, processed, disk, drive, f, should_stop, decision, reloaded, slept,
                   started>>

\* Line 220: processed[fid] = cur_info.
Record ==
    /\ w_pc = "record"
    /\ processed' = Put(processed, f[1].id, CurInfo(f[1]))
    /\ w_pc' = "save"
    /\ UNCHANGED <<coreVars, fname, safe_name, local_path, disk, drive, f, should_stop, decision, reloaded, slept,
                   running, started, failed, ended>>

\* Line 221: save_processed(processed) replaces PROCESSED_FILE.
Save ==
    /\ w_pc = "save"
    /\ disk' = processed
    /\ w_pc' = "sleep"
    /\ UNCHANGED <<coreVars, fname, safe_name, local_path, processed, drive, f, should_stop, decision, reloaded, slept,
                   running, started, failed, ended>>

\* Frequência de checagem (segundos).
CHECK_EVERY_SEC == 30

\* WaitOver that does not look at the stop flag.
WaitOverIgnoringStop(stop, n) == n = CHECK_EVERY_SEC

\* The wait ends: "if _should_stop: break", or range(CHECK_EVERY_SEC) is used up.
WaitOver(stop, n) == stop \/ n = CHECK_EVERY_SEC

\* Lines 229-232: the wait until the next check, one time.sleep(1) at a time.
Sleep ==
    /\ w_pc = "sleep"
    /\ IF WaitOver(should_stop, slept)
       THEN w_pc' = "poll" /\ slept' = 0
       ELSE w_pc' = "sleep" /\ slept' = slept + 1
    /\ UNCHANGED <<coreVars, fname, safe_name, local_path, processed, disk, drive, f, should_stop, decision, reloaded,
                   running, started, failed, ended>>

\* _graceful_exit: SIGINT or SIGTERM arrives.
Signal ==
    /\ w_pc \notin {"off", "stopped"}
    /\ ~should_stop
    /\ should_stop' = TRUE
    /\ UNCHANGED <<coreVars, fname, safe_name, local_path, w_pc, processed, disk, drive, f, decision, reloaded, slept,
                   running, started, failed, ended>>

\* Someone uploads, edits or removes a spreadsheet of the folder.  The watcher
\* sees the folder only when it lists it, so whatever happened to the folder
\* since the last listing is taken as one change before the next.
DriveChange ==
    /\ w_pc = "poll"
    /\ drive' \in Listings \ {drive}
    /\ failed' = <<>>
    /\ UNCHANGED <<coreVars, fname, safe_name, local_path, w_pc, processed, disk, f, should_stop, decision, reloaded, slept,
                   running, started, ended>>

\* The process ends, wherever it is, and is started again: load_processed()
\* reads PROCESSED_FILE back.
Restart ==
    /\ w_pc # "off"
    /\ processed' = disk
    /\ f' = <<>>
    /\ should_stop' = FALSE
    /\ decision' = "none"
    /\ reloaded' = TRUE
    /\ slept' = 0
    /\ running' = 0 /\ started' = 0 /\ failed' = <<>> /\ ended' = "none"
    /\ w_pc' = "poll"
    /\ UNCHANGED <<coreVars, fname, safe_name, local_path, disk, drive>>

NextWatch ==
    \/ Poll \/ Decide \/ Download \/ RunAutomacao \/ Record \/ Save \/ Sleep
    \/ Signal \/ DriveChange \/ Restart

SpecWatch == InitWatch /\ [][NextWatch]_vars

\* The watcher's own steps.  The process keeps running: a listing, a download,
\* the importer's run, a file write and a time.sleep(1) all come to an end.
WatcherStep ==
    Poll \/ Decide \/ Download \/ RunAutomacao \/ Record \/ Save \/ Sleep

SpecWatchLive == SpecWatch /\ WF_vars(WatcherStep)

(***************************************************************************)
(* The file name the watcher works with.  A name is a sequence of          *)
(* character codes.  Drive hands over any name; sanitize_filename makes    *)
(* the one the temporary path is built of.                                 *)
(***************************************************************************)
MaxNameLen == 3

\* _SANITIZE_PATTERN without the backslash.
SANITIZE_PATTERN_NoBackslash == {60, 62, 58, 34, 47, 124, 63, 42} \cup (0..31)

\* Lines 60-62: _WIN_FORBIDDEN  < > : " / \ | ? *  and _CTRL, the codes 0-31.
SANITIZE_PATTERN == {60, 62, 58, 34, 47, 92, 124, 63, 42} \cup (0..31)

\* Lines 64-78.  str.strip() and the pattern \s take str.isspace() for white
\* space: tab, the line ends, VT, FF, the separators 28-31, the space, NEL and
\* the no-break space among the codes below 256.
sanitize_filename(name) ==
    LET IsSpace(c) == c \in {9, 10, 11, 12, 13, 28, 29, 30, 31, 32, 133, 160}
        Replace(s) == [k \in 1..Len(s) |-> IF s[k] \in {13, 10, 9} THEN 32 ELSE s[k]]
        Strip(s) ==
            LET keep == {k \in 1..Len(s) : ~IsSpace(s[k])}
            IN  IF keep = {} THEN <<>>
                ELSE SubSeq(s, CHOOSE k \in keep : \A j \in keep : k <= j,
                               CHOOSE k \in keep : \A j \in keep : k >= j)
        Sub(s) == [k \in 1..Len(s) |-> IF s[k] \in SANITIZE_PATTERN THEN 95 ELSE s[k]]
        Collapse(s) ==
            LET marked == [k \in 1..Len(s) |->
                              [c    |-> IF IsSpace(s[k]) THEN 32 ELSE s[k],
                               more |-> IsSpace(s[k]) /\ k > 1 /\ IsSpace(s[k - 1])]]
                Head1(m) == ~m.more
                runs == SelectSeq(marked, Head1)
            IN  [k \in 1..Len(runs) |-> runs[k].c]
        lower(s) == [k \in 1..Len(s) |-> IF s[k] \in 65..90 THEN s[k] + 32 ELSE s[k]]
        EndsWith(s, suffix) ==
            /\ Len(s) >= Len(suffix)
            /\ SubSeq(s, Len(s) - Len(suffix) + 1, Len(s)) = suffix
        xlsx == <<46, 120, 108, 115, 120>>
        default_stub == <<97, 114, 113, 117, 105, 118, 111>> \o xlsx
        stripped == Strip(Replace(name))
        collapsed == Collapse(Sub(stripped))
        clean == IF collapsed = <<>> THEN default_stub ELSE collapsed
    IN  IF EndsWith(lower(clean), xlsx) THEN clean ELSE clean \o xlsx

\* The watcher has listed a file (line 197); its name is any text: NUL, line
\* feed, the separator 28, space, dot, slash, backslash, a letter, the
\* no-break space, with or without an extension in either case.
InitName ==
    /\ rows = <<>> /\ cols = {} /\ mapTable = <<>> /\ tipos = <<>>
    /\ conn = "none"
    /\ args = LiveArgs
    /\ caller = "watcher"
    /\ TT = <<>> /\ TL = <<>>
    /\ durable = [TT |-> TT, TL |-> TL]
    /\ store0 = durable
    /\ seed0 = durable
    /\ InitLocals
    /\ ids_plan = <<>>
    /\ faltam_all = <<>> /\ mapa = <<>>
    /\ pc = "off"
    /\ disk = EmptyMap /\ processed = disk
    /\ drive = <<>> /\ f = <<>>
    /\ should_stop = FALSE /\ decision = "none" /\ reloaded = FALSE
    /\ slept = 0
    /\ running = 0 /\ started = 0 /\ failed = <<>> /\ ended = "none"
    /\ LET Chars == {0, 10, 28, 32, 46, 47, 92, 97, 160}
           Extensions == {<<>>,
                          <<46, 120, 108, 115, 120>>,
                          <<46, 88, 76, 83, 88>>,
                          <<46, 120, 108, 115>>,
                          <<46, 120, 108, 115, 120, 32>>,
                          <<46, 88, 108, 115, 120, 10>>}
       IN  \E n \in 0..MaxNameLen : \E stem \in [1..n -> Chars] : \E ext \in Extensions :
              fname = stem \o ext
    /\ safe_name = <<>> /\ local_path = <<>>
    /\ w_pc = "sanitize"

\* Line 201: safe_name = sanitize_filename(fname).
Sanitize ==
    /\ w_pc = "sanitize"
    /\ safe_name' = sanitize_filename(fname)
    /\ w_pc' = "join"
    /\ UNCHANGED <<coreVars, fname, local_path, processed, disk, drive, f, should_stop,
                   decision, reloaded, slept, running, started, failed, ended>>

\* Lines 215-216: local_path = os.path.join(tmpdir, safe_name).  A second
\* component that is absolute (it starts with a separator, or carries a drive)
\* replaces the first; otherwise the two are joined by a separator.
JoinPath ==
    /\ w_pc = "join"
    /\ LET tmpdir == <<47, 116>>
           absolute == /\ safe_name # <<>>
                       /\ \/ safe_name[1] \in {47, 92}
                          \/ Len(safe_name) >= 2 /\ safe_name[2] = 58
       IN  local_path' = IF absolute THEN safe_name ELSE tmpdir \o <<47>> \o safe_name
    /\ w_pc' = "named"
    /\ UNCHANGED <<coreVars, fname, safe_name, processed, disk, drive, f, should_stop,
                   decision, reloaded, slept, running, started, failed, ended>>

NextName == Sanitize \/ JoinPath

SpecName == InitName /\ [][NextName]_vars

(***************************************************************************)
(* What the properties speak of, read off the inputs and the history.      *)
(***************************************************************************)
\* The distinct canonical identifiers of the sheet (N of them).
InputIds == {rows[k].id_tipo : k \in DOMAIN rows} \ {NA}

\* Those without a CanonicalRecord when the run starts (M of them).
Missing0 == InputIds \ IdsOf(store0.TT)

\* The last row of the sheet that carries id.
LastRowOf(id) ==
    rows[CHOOSE k \in DOMAIN rows :
            /\ rows[k].id_tipo = id
            /\ \A j \in DOMAIN rows : rows[j].id_tipo = id => j <= k]

\* The run has passed the missing-ratio guard / the seed-cap guard.
PastRatioGuard == pc \notin {"start", "check", "guard", "exit"} \/ outcome \in {"done", "dry_run", "abort_cap"}
PastSeedGate == pc \notin {"start", "check", "guard", "seed_gate", "exit"} \/ outcome \in {"done", "dry_run"}

\* The ids for which an INSERT of seed_missing created a row.
CreatedIds == {stmts[k].id : k \in {j \in DOMAIN stmts : stmts[j].op = "INSERT" /\ stmts[j].n > 0}}

NoWrites == stmts = <<>> /\ TT = store0.TT /\ TL = store0.TL /\ durable = store0

\* The set S of non-null content ids the mapping table holds for id.
ContentIdsOf(id) ==
    {mapTable[k][2] : k \in {j \in DOMAIN mapTable :
                                mapTable[j][1] = id /\ mapTable[j][2] # NULLID}}

SetMin(S) == CHOOSE x \in S : \A y \in S : x <= y
SetMax(S) == CHOOSE x \in S : \A y \in S : x >= y

\* min(S) or max(S), as the policy says.
Picked(id) == IF args.pick = "min" THEN SetMin(ContentIdsOf(id)) ELSE SetMax(ContentIdsOf(id))

\* The content id a run resolves for a missing id: from the mapping table,
\* else the default one, else none (NoDefault).
ResolvedFor(id) ==
    IF ContentIdsOf(id) # {} THEN Picked(id) ELSE args.default_idconteudo

\* The positions of the run's statements of one kind.
StmtsOf(op) == {k \in DOMAIN stmts : stmts[k].op = op}

\* The listed file is recorded in handled-set p with the same fingerprint:
\* the same md5Checksum, or the same modifiedTime when neither has an md5.
Recorded(p, file) ==
    /\ file.id \in DOMAIN p
    /\ LET prev == p[file.id]
       IN  IF file.md5Checksum # NoMd5 /\ prev.md5Checksum # NoMd5
           THEN file.md5Checksum = prev.md5Checksum
           ELSE /\ file.md5Checksum = NoMd5 /\ prev.md5Checksum = NoMd5
                /\ file.modifiedTime = prev.modifiedTime

(***************************************************************************)
(* C1  Missing-ratio guard.  In a run with seeding disabled and N > 0      *)
(* distinct ids of which M are missing at the start, the run ends at the   *)
(* guard, with no write statement executed, exactly when M/N > threshold:  *)
(* a run that ended "abort_ratio" had M/N > threshold and wrote nothing, a *)
(* run with M/N > threshold never gets past the guard, and a run with      *)
(* M/N <= threshold (equality included) is never aborted by the guard and, *)
(* unless the store fails, ends after its update passes.                   *)
(***************************************************************************)
C1_MissingRatioGuard ==
    LET n == Cardinality(InputIds)
        m == Cardinality(Missing0)
        over == m * 100 > args.abort_pct * n
    IN  /\ outcome = "abort_ratio" => (~args.auto_seed /\ n > 0 /\ over /\ NoWrites)
        /\ (~args.auto_seed /\ n > 0 /\ over) => (~PastRatioGuard /\ NoWrites)
        /\ (~args.auto_seed /\ n > 0 /\ ~over /\ pc = "exit")
              => outcome \in {"done", "error", "no_file"}

\* A run exactly at the threshold (M/N = threshold, M > 0) that was not
\* aborted and completed its update passes.
C1_Witness ==
    /\ pc = "exit" /\ outcome = "done" /\ ~args.auto_seed
    /\ Cardinality(Missing0) > 0
    /\ Cardinality(Missing0) * 100 = args.abort_pct * Cardinality(InputIds)
    /\ stmts # <<>>

(***************************************************************************)
(* C2  Seed-cap guard, as claimed: in a run with seeding enabled (and a    *)
(* sheet with identifiers), M missing ids and cap C, the finished run has  *)
(* executed no seeding insert and no update statement if and only if       *)
(* M > C.                                                                  *)
(***************************************************************************)
C2_NoWritesIffOverCap ==
    (pc = "exit" /\ outcome \notin {"no_file", "error"} /\ args.auto_seed /\ InputIds # {})
        => ((stmts = <<>>) <=> (Cardinality(Missing0) > args.max_seed))

(***************************************************************************)
(* C2  Seed-cap guard, amended.  In a run with seeding enabled, M missing  *)
(* ids and cap C: the run ends at the seed-cap guard exactly when M > C,   *)
(* and then it has called seed_missing not at all and executed no insert   *)
(* and no update; when 0 < M <= C a run that ends without a store error    *)
(* has called seed_missing once (a dry run or a batch without content ids  *)
(* inserts nothing); and no run creates records for more than C ids.       *)
(***************************************************************************)
C2_SeedCapGuard ==
    LET m == Cardinality(Missing0)
        over == m > args.max_seed
    IN  /\ outcome = "abort_cap" => (args.auto_seed /\ over /\ NoWrites /\ calls = 0)
        /\ (args.auto_seed /\ over) => (~PastSeedGate /\ NoWrites /\ calls = 0)
        /\ (args.auto_seed /\ m > 0 /\ ~over /\ pc = "exit" /\ outcome \notin {"error", "no_file"})
              => (outcome \in {"done", "dry_run"} /\ calls = 1)
        /\ args.auto_seed => Cardinality(CreatedIds) <= args.max_seed
        /\ ~args.auto_seed => CreatedIds = {}

\* A finished run that seeded exactly as many ids as the cap allows.
C2_Witness ==
    /\ pc = "exit" /\ outcome = "done" /\ args.auto_seed
    /\ Cardinality(Missing0) = args.max_seed
    /\ Cardinality(CreatedIds) = args.max_seed

(***************************************************************************)
(* C3  A run invoked with --dry-run never mutates the store: whatever the  *)
(* seeding flag and the missing ids, no insert and no update statement is  *)
(* executed and both tables keep their contents.                           *)
(***************************************************************************)
C3_DryRunNeverMutates ==
    (args.dry_run /\ pc = "exit") => (stmts = <<>> /\ durable = store0)

(***************************************************************************)
(* C4  As claimed: after a run that ends without a guard abort and without *)
(* a store error (here: one that completed its update passes), every input *)
(* row with a valid identifier has its CanonicalRecord, with that row's    *)
(* two texts and Ativo = 1.                                                *)
(***************************************************************************)
C4_EveryRowApplied ==
    (pc = "exit" /\ outcome = "done") =>
        \A k \in DOMAIN rows :
            rows[k].id_tipo # NA =>
                \E j \in DOMAIN durable.TT :
                    /\ durable.TT[j].idTipo = rows[k].id_tipo
                    /\ durable.TT[j].TextoPrimario = rows[k].TextoPrimario
                    /\ durable.TT[j].TextoSecundario = rows[k].TextoSecundario
                    /\ durable.TT[j].Ativo = 1

(***************************************************************************)
(* C4  Amended.  After a run that completes its update passes (no guard    *)
(* abort, no dry-run stop, no store error), every CanonicalRecord of an    *)
(* input identifier holds the two texts of the LAST input row carrying     *)
(* that identifier (NULL for a blank cell) and Ativo = 1; every identifier *)
(* that had a record before the run still has it, and with seeding         *)
(* disabled the identifiers without a record are left without one.         *)
(***************************************************************************)
C4_LastRowApplied ==
    (pc = "exit" /\ outcome = "done") =>
        /\ \A id \in InputIds : \A j \in Matching(durable.TT, id) :
              /\ durable.TT[j].TextoPrimario = LastRowOf(id).TextoPrimario
              /\ durable.TT[j].TextoSecundario = LastRowOf(id).TextoSecundario
              /\ durable.TT[j].Ativo = 1
        /\ IdsOf(store0.TT) \subseteq IdsOf(durable.TT)
        /\ ~args.auto_seed => IdsOf(durable.TT) = IdsOf(store0.TT)

\* A completed run over a sheet with two rows for one identifier: the record
\* holds the second row's texts, not the first's.
C4_Witness ==
    /\ pc = "exit" /\ outcome = "done"
    /\ \E id \in InputIds : \E j \in Matching(durable.TT, id) :
          /\ Cardinality({k \in DOMAIN rows : rows[k].id_tipo = id}) > 1
          /\ durable.TT[j].TextoPrimario = LastRowOf(id).TextoPrimario
          /\ durable.TT[j].TextoPrimario # rows[1].TextoPrimario

(***************************************************************************)
(* C5  Live seeding is all-or-nothing.  When a statement of seed_missing's *)
(* batch fails, after any number of inserted pairs, both tables are back   *)
(* at the rows they held when seed_missing was called, nothing of the      *)
(* batch is committed, and the error leaves main() (exit code 1) with the  *)
(* tables still so; when seed_missing returns from a live batch, every     *)
(* pair of the batch has its row in both tables.                           *)
(***************************************************************************)
C5_SeedAllOrNothing ==
    /\ [](pc = "seed_raised" =>
            (TT = seed0.TT /\ TL = seed0.TL /\ durable = seed0))
    /\ [][pc = "seed_raised" =>
            (/\ pc' = "exit" /\ outcome' = "error" /\ exit_code' = 1
             /\ TT' = seed0.TT /\ TL' = seed0.TL /\ durable' = seed0)]_vars
    /\ []((pc = "after_seed" /\ ~args.dry_run) =>
            \A k \in DOMAIN to_do :
                to_do[k][1] \in IdsOf(TT) /\ to_do[k][1] \in IdsOf(TL))

\* seed_missing raised after at least one pair was inserted.
C5_Witness ==
    /\ pc = "seed_raised"
    /\ \E k \in DOMAIN stmts : stmts[k].op = "INSERT" /\ stmts[k].tbl = "TL" /\ stmts[k].n = 1

(***************************************************************************)
(* C6  Seeding is idempotent.  For every mapping and every initial store,  *)
(* a second live seed_missing with the same mapping leaves both tables as  *)
(* the first call left them, no identifier ever has a second row in either *)
(* table, the second call raises no error, and after it every mapped       *)
(* identifier has its row in both tables.                                  *)
(***************************************************************************)
C6_SeedIdempotent ==
    /\ pc \notin {"seed_except", "seed_raised"}
    /\ \A id \in IdTipos : ~Duplicated(TT, id) /\ ~Duplicated(TL, id)
    /\ calls = 2 => (TT = seed0.TT /\ TL = seed0.TL)
    /\ (calls = 2 /\ pc = "seed_returned") =>
          /\ DOMAIN mapa \subseteq (IdsOf(TT) \cap IdsOf(TL))
          /\ IdsOf(TT) = IdsOf(store0.TT) \cup DOMAIN mapa
          /\ IdsOf(TL) = IdsOf(store0.TL) \cup DOMAIN mapa

\* The second call has returned; the first call had inserted a row, and the
\* second call executed the same statement without inserting one.
C6_Witness ==
    /\ calls = 2 /\ pc = "seed_returned"
    /\ \E k \in DOMAIN stmts :
          /\ stmts[k].n = 1
          /\ k + 2 * Len(to_do) \in DOMAIN stmts
          /\ stmts[k + 2 * Len(to_do)] = [stmts[k] EXCEPT !.n = 0]

(***************************************************************************)
(* C7  Seed, then update, in one run.  Every seeding insert of a run       *)
(* precedes every update statement.  In a live run with seeding enabled    *)
(* and the missing ids within the cap, each missing id with a resolved     *)
(* content id has, when seed_missing returns, one record with empty texts  *)
(* and that content id; the existence check made afterwards finds it; an   *)
(* update of a missing id comes after the insert that created its record;  *)
(* and when the run completes the record holds the texts of the id's last  *)
(* input row, Ativo = 1 and the resolved content id.                       *)
(***************************************************************************)
C7_SeedThenUpdate ==
    LET seeded == {id \in Missing0 : ResolvedFor(id) # NoDefault}
    IN  /\ \A a \in StmtsOf("INSERT") : \A b \in StmtsOf("UPDATE") : a < b
        /\ (pc = "after_seed" /\ ~args.dry_run) =>
              \A id \in seeded :
                  /\ \E k \in DOMAIN TT : Matching(TT, id) = {k}
                        /\ TT[k] = [idTipo |-> id, TextoPrimario |-> "",
                                    TextoSecundario |-> "", Ativo |-> 1,
                                    IdConteudo |-> ResolvedFor(id), Header |-> NULL]
                  /\ stmts = <<>> \/ stmts[Len(stmts)].op = "INSERT"
        /\ (pc \in {"filter", "upd_tt", "upd_tl", "finish"} /\ calls = 1 /\ ~args.dry_run) =>
              seeded \subseteq existentes
        /\ \A b \in StmtsOf("UPDATE") :
              stmts[b].id \in Missing0 =>
                  \E a \in StmtsOf("INSERT") :
                      a < b /\ stmts[a] = Stmt("INSERT", stmts[b].tbl, stmts[b].id, 1)
        /\ (pc = "exit" /\ outcome = "done" /\ args.auto_seed) =>
              \A id \in seeded :
                  \E k \in DOMAIN durable.TT : Matching(durable.TT, id) = {k}
                      /\ durable.TT[k].TextoPrimario = LastRowOf(id).TextoPrimario
                      /\ durable.TT[k].TextoSecundario = LastRowOf(id).TextoSecundario
                      /\ durable.TT[k].Ativo = 1
                      /\ durable.TT[k].IdConteudo = ResolvedFor(id)

\* A completed run that created the record of a missing id with a content id
\* taken from the mapping table and then updated it with the row's texts.
C7_Witness ==
    /\ pc = "exit" /\ outcome = "done"
    /\ \E id \in Missing0 : \E k \in Matching(durable.TT, id) :
          /\ ContentIdsOf(id) # {}
          /\ durable.TT[k].IdConteudo = Picked(id)
          /\ durable.TT[k].TextoSecundario = LastRowOf(id).TextoSecundario
          /\ durable.TT[k].TextoSecundario # ""
          /\ \E a \in StmtsOf("INSERT") : \E b \in StmtsOf("UPDATE") :
                /\ stmts[a] = Stmt("INSERT", "TT", id, 1)
                /\ stmts[b] = Stmt("UPDATE", "TT", id, 1)

(***************************************************************************)
(* C8  Tie-break of resolve_idconteudo.  Whatever the rows of the mapping  *)
(* table and their order, and at every repetition of the call, the result  *)
(* holds exactly the requested identifiers that have a non-empty set S of  *)
(* non-null content ids, each mapped to min(S) under policy min and to     *)
(* max(S) under policy max; the identifiers without a non-null row are     *)
(* absent, and the call returns.                                           *)
(***************************************************************************)
C8_ResolveTieBreak ==
    pc = "resolved" =>
        /\ DOMAIN mapa = {id \in Range(faltam_all) : ContentIdsOf(id) # {}}
        /\ \A id \in DOMAIN mapa :
              /\ args.pick = "min" => mapa[id] = SetMin(ContentIdsOf(id))
              /\ args.pick = "max" => mapa[id] = SetMax(ContentIdsOf(id))

\* A call has returned for an identifier with several content ids whose rows
\* are in descending order under policy min (the first row is not the answer),
\* next to a requested identifier without any non-null row.
C8_Witness ==
    /\ pc = "resolved"
    /\ \E id \in DOMAIN mapa :
          /\ Cardinality(ContentIdsOf(id)) > 1
          /\ args.pick = "min"
          /\ \E k \in DOMAIN mapTable :
                /\ mapTable[k][1] = id /\ mapTable[k][2] # NULLID
                /\ mapTable[k][2] # mapa[id]
                /\ \A j \in 1..(k - 1) : mapTable[j][1] # id
    /\ \E id \in Range(faltam_all) : id \notin DOMAIN mapa

(***************************************************************************)
(* C9  Watcher idempotence.  No step of the watcher starts the importer    *)
(* for a listed file that the handled-set records with the same content    *)
(* fingerprint (same md5Checksum, or same modifiedTime when there is no    *)
(* md5), at any tick; a restart puts the persisted handled-set in place of *)
(* the one in memory, and outside the moment between recording and saving  *)
(* the two are the same, so what was recorded stays recorded across it.    *)
(***************************************************************************)
C9_WatcherIdempotent ==
    /\ [][(w_pc' = "invoke" /\ w_pc # "invoke") =>
              (f # <<>> /\ ~Recorded(processed, f[1]) /\ UNCHANGED <<processed, f>>)]_vars
    /\ [](w_pc \in {"download", "invoke"} => (f # <<>> /\ ~Recorded(processed, f[1])))
    /\ [][(reloaded' /\ w_pc' = "poll" /\ w_pc # "sleep") => processed' = disk]_vars
    /\ [](w_pc # "save" => processed = disk)

\* After a restart, a tick listed a file that the reloaded handled-set records
\* with the same fingerprint, and the watcher skipped it.
C9_Witness ==
    /\ reloaded /\ w_pc = "sleep" /\ decision = "skip"
    /\ f # <<>> /\ Recorded(processed, f[1])
    /\ processed = disk

(***************************************************************************)
(* C10  Filter before apply: every update statement targets an identifier  *)
(* that the last existence check found, and that has a row in the table    *)
(* the statement updates, for the Texts table and for the Titles table.    *)
(***************************************************************************)
C10_UpdatesTargetExistingRows ==
    \A k \in StmtsOf("UPDATE") :
        /\ stmts[k].id \in existentes
        /\ stmts[k].n >= 1

\* No update of the run shows in the table: every row holds the texts it had
\* before the run ("old") or the placeholders of a seed ("").
TTUntouched(t) ==
    \A k \in DOMAIN t : /\ t[k].TextoPrimario \in {"old", ""}
                        /\ t[k].TextoSecundario \in {"old", ""}

TLUntouched(t) ==
    \A k \in DOMAIN t : /\ t[k].TextoTitle \in {"old", ""}
                        /\ t[k].TextoMetaDescription \in {"old", ""}

\* The whole pass shows in the table: every row of an input identifier holds
\* the texts of the identifier's last input row and Ativo = 1.
TTApplied(t) ==
    \A id \in InputIds : \A k \in Matching(t, id) :
        /\ t[k].TextoPrimario = LastRowOf(id).TextoPrimario
        /\ t[k].TextoSecundario = LastRowOf(id).TextoSecundario
        /\ t[k].Ativo = 1

TLApplied(t) ==
    \A id \in InputIds : \A k \in Matching(t, id) :
        /\ t[k].TextoTitle = LastRowOf(id).TextoTitle
        /\ t[k].TextoMetaDescription = LastRowOf(id).TextoMeta
        /\ t[k].Ativo = 1

\* The step is a store failure in the update pass at position p.
FailsIn(p) == pc = p /\ pc' = "exit" /\ outcome' = "error"

(***************************************************************************)
(* C11  The two update passes are independent.  A store failure in the     *)
(* Titles pass leaves the Texts pass's updates, all of them, committed,    *)
(* and nothing of the Titles pass; a failure in the Texts pass leaves      *)
(* neither table updated; and in every final state each table is either    *)
(* not updated at all or updated for every input identifier it holds.      *)
(***************************************************************************)
C11_PassesIndependent ==
    /\ [][FailsIn("upd_tl") =>
            (/\ durable' = durable
             /\ TTApplied(durable'.TT) /\ TLUntouched(durable'.TL)
             /\ TT' = durable'.TT /\ TL' = durable'.TL)]_vars
    /\ [][FailsIn("upd_tt") =>
            (/\ durable' = durable
             /\ TTUntouched(durable'.TT) /\ TLUntouched(durable'.TL)
             /\ TT' = durable'.TT /\ TL' = durable'.TL)]_vars
    /\ [](pc = "exit" =>
            (/\ TTUntouched(durable.TT) \/ TTApplied(durable.TT)
             /\ TLUntouched(durable.TL) \/ TLApplied(durable.TL)))

\* The Titles pass failed after it had updated a row: that update is gone,
\* and the Texts pass's updates are in the store.
C11_Witness ==
    /\ pc = "exit" /\ outcome = "error"
    /\ \E k \in StmtsOf("UPDATE") : stmts[k].tbl = "TL" /\ stmts[k].n = 1
    /\ \E k \in StmtsOf("UPDATE") : stmts[k].tbl = "TT" /\ stmts[k].n = 1
    /\ TTApplied(durable.TT) /\ ~TTUntouched(durable.TT)
    /\ TLUntouched(durable.TL)

\* The missing ids for which the mapping table has no content id.
Unmapped0 == {id \in Missing0 : ContentIdsOf(id) = {}}

\* The ids the log lists as left without content id, and the numbers the log
\* reports as their count.
Listed == UNION {Range(l.ids) : l \in {x \in diag : x.line = "tratar manualmente"}}
CountsLogged == {l.n : l \in {x \in diag : x.line = "Sem IdConteudo"}}

\* seed_missing has returned to main() and main() went on.
PastSeed == calls = 1 /\ (pc \in {"filter", "upd_tt", "upd_tl", "finish"}
                          \/ outcome \in {"done", "dry_run"})

\* No statement of the run targets id, and neither table holds a row for it.
NeverWritten(id) ==
    /\ \A k \in DOMAIN stmts : stmts[k].id # id
    /\ id \notin IdsOf(TT) /\ id \notin IdsOf(TL)
    /\ id \notin IdsOf(durable.TT) /\ id \notin IdsOf(durable.TL)

C13_ExitBehaviour ==
    /\ outcome = "no_file" =>
          (pc = "exit" /\ exit_code = 2 /\ conn = "none" /\ NoWrites /\ diag = {})
    /\ exit_code = 2 => outcome = "no_file"
    /\ conn = "none" => (stmts = <<>> /\ pc \in {"start", "exit"})
    /\ outcome \in {"abort_ratio", "abort_cap"} =>
          (pc = "exit" /\ exit_code = 0 /\ conn = "closed" /\ NoWrites)
    /\ pc = "exit" => (exit_code = 0 <=> outcome \in {"abort_ratio", "abort_cap",
                                                     "dry_run", "done"})

\* A run over a sheet with rows ended because the file was not there.
C13_Witness ==
    /\ pc = "exit" /\ outcome = "no_file" /\ exit_code = 2 /\ conn = "none"
    /\ rows # <<>>

\* The sheet has no id_tipo column and lacks id_cat or id_grupo.
LacksColumns ==
    "id_tipo" \notin cols /\ ("id_cat" \notin cols \/ "id_grupo" \notin cols)

\* The sheet has id_cat and id_grupo instead of id_tipo, and one of the two
\* columns holds no number.
NoNumericValue ==
    /\ "id_tipo" \notin cols /\ "id_cat" \in cols /\ "id_grupo" \in cols
    /\ \/ \A k \in DOMAIN rows : rows[k].id_cat = NA
       \/ \A k \in DOMAIN rows : rows[k].id_grupo = NA

\* The table holds two canonical identifiers for a (category, group) pair of
\* a row of the sheet.
AmbiguousPair ==
    /\ "id_tipo" \notin cols /\ "id_cat" \in cols /\ "id_grupo" \in cols
    /\ \E k \in DOMAIN rows : \E a, b \in DOMAIN tipos :
          /\ tipos[a][1] = rows[k].id_cat /\ tipos[a][2] = rows[k].id_grupo
          /\ tipos[b][1] = rows[k].id_cat /\ tipos[b][2] = rows[k].id_grupo
          /\ tipos[a][3] # tipos[b][3]

(***************************************************************************)
(* C14  Configuration errors are fatal with no writes: a run over a sheet  *)
(* without id_tipo that lacks id_cat or id_grupo, or has no numeric value  *)
(* in them, or whose (category, group) pair has more than one canonical    *)
(* identifier in the mapping table, ends with an error and has executed no *)
(* insert and no update.                                                   *)
(***************************************************************************)
C14_ConfigErrorsFatal ==
    (pc = "exit" /\ outcome # "no_file"
       /\ (LacksColumns \/ NoNumericValue \/ AmbiguousPair)) =>
        (outcome = "error" /\ exit_code # 0 /\ stmts = <<>> /\ durable = store0)

\* The step ends the process from outside and starts it again.
IsRestart == reloaded' /\ w_pc' = "poll" /\ ~should_stop' /\ f' = <<>>

(***************************************************************************)
(* C15  Cooperative cancellation.  A signal only sets the stop flag: it    *)
(* changes nothing else, so an importer run in progress is left alone and  *)
(* ends with its own result, which is recorded and saved as usual.  With   *)
(* the flag set no tick begins (the loop condition ends the loop) and no   *)
(* further second of the wait is slept.  Once the flag is set the loop     *)
(* terminates, unless the process is ended from outside first.             *)
(***************************************************************************)
C15_CooperativeStop ==
    /\ [][(~should_stop /\ should_stop') =>
              UNCHANGED <<w_pc, processed, disk, f, decision, slept>>]_vars
    /\ [][(should_stop /\ w_pc = "invoke" /\ w_pc' # "invoke" /\ ~IsRestart) =>
              w_pc' \in {"record", "sleep"}]_vars
    /\ [][(should_stop /\ w_pc = "record" /\ w_pc' # "record" /\ ~IsRestart) =>
              (w_pc' = "save" /\ f[1].id \in DOMAIN processed')]_vars
    /\ [][(should_stop /\ w_pc = "poll" /\ w_pc' # "poll" /\ ~IsRestart) =>
              w_pc' = "stopped"]_vars
    /\ [][(should_stop /\ w_pc = "sleep" /\ ~IsRestart) =>
              (slept' = slept \/ (slept' = 0 /\ w_pc' = "poll"))]_vars
    /\ [][(w_pc' = "invoke" /\ w_pc # "invoke") => w_pc = "download"]_vars
    /\ [](w_pc = "stopped" => should_stop)
    /\ should_stop ~> (w_pc = "stopped" \/ ~should_stop)

\* The flag was set in the middle of a tick that ran the importer; the run
\* completed all the same and its file has just been recorded.
C15_Witness ==
    /\ should_stop /\ w_pc = "save"
    /\ decision = "run"
    /\ Recorded(processed, f[1]) /\ ~Recorded(disk, f[1])

(***************************************************************************)
(* C16  Serial processing.  At no time is more than one importer run of    *)
(* the watcher process in progress, no tick starts more than one run, and  *)
(* a run starts only when none is in progress: from the download of the    *)
(* tick's one file, after the run of any earlier tick has returned.        *)
(***************************************************************************)
C16_OneRunAtATime ==
    /\ [](running <= 1 /\ started <= 1)
    /\ [](running = 1 <=> w_pc = "invoke")
    /\ [][running' > running =>
              (running = 0 /\ started = 0 /\ w_pc = "download")]_vars

\* A later tick's run is in progress after an earlier tick's run of this
\* process has returned and was recorded.
C16_Witness ==
    /\ w_pc = "invoke" /\ running = 1 /\ started = 1
    /\ ~reloaded /\ processed # EmptyMap

(***************************************************************************)
(* C17  Null avoidance.  In the committed store every row of the Texts     *)
(* table has a primary and a secondary text that are not NULL, and every   *)
(* row of the Titles table a title and a meta description that are not     *)
(* NULL (the rows the store starts with have none), whatever rows were     *)
(* seeded or updated, blank text cells included.                           *)
(***************************************************************************)
C17_NullAvoidance ==
    /\ \A k \in DOMAIN durable.TT :
          durable.TT[k].TextoPrimario # NULL /\ durable.TT[k].TextoSecundario # NULL
    /\ \A k \in DOMAIN durable.TL :
          durable.TL[k].TextoTitle # NULL /\ durable.TL[k].TextoMetaDescription # NULL

(***************************************************************************)
(* C18  Title/Canonical 1:1.  After a run with seeding enabled, not a dry  *)
(* run, over a sheet with the title and meta columns, that ended in        *)
(* success, every input identifier with a CanonicalRecord has exactly one  *)
(* TitleRecord, and it holds the title and the meta description of the     *)
(* identifier's row; so too an identifier whose CanonicalRecord was there  *)
(* before the run while its TitleRecord was not.                           *)
(***************************************************************************)
C18_TitleForEveryCanonical ==
    (/\ pc = "exit" /\ outcome = "done"
     /\ args.auto_seed /\ ~args.dry_run
     /\ "Texto Title" \in cols /\ "Texto Meta Description" \in cols) =>
        \A id \in InputIds \cap IdsOf(durable.TT) :
            /\ Cardinality(Matching(durable.TL, id)) = 1
            /\ \A k \in Matching(durable.TL, id) :
                  /\ durable.TL[k].TextoTitle = LastRowOf(id).TextoTitle
                  /\ durable.TL[k].TextoMetaDescription = LastRowOf(id).TextoMeta

\* The UPDATE statements the run has executed on table tbl.
UpdatesOn(tbl) == {k \in StmtsOf("UPDATE") : stmts[k].tbl = tbl}

(***************************************************************************)
(* C19 as stated: when the k-th UPDATE of a pass fails, the k-1 updates    *)
(* executed before it remain in the store after the connection is closed:  *)
(* the committed table is the table as those updates left it.              *)
(***************************************************************************)
C19_EachUpdateDurable ==
    /\ [][FailsIn("upd_tt") => durable'.TT = TT]_vars
    /\ [][FailsIn("upd_tl") => durable'.TL = TL]_vars

(***************************************************************************)
(* C19  A failure in an update pass.  When the k-th UPDATE of a pass       *)
(* fails, exactly k-1 updates of that table have been attempted, no        *)
(* statement follows and none is repeated; the store is left as it was     *)
(* committed before the pass, so none of the k-1 updates remains after the *)
(* connection is closed: a pass is committed only as a whole.              *)
(***************************************************************************)
C19_FailedPassLeavesNothing ==
    /\ [][FailsIn("upd_tt") =>
            (/\ Cardinality(UpdatesOn("TT")) = i - 1 /\ UpdatesOn("TL") = {}
             /\ stmts' = stmts
             /\ durable' = durable /\ TTUntouched(durable'.TT)
             /\ TT' = durable'.TT /\ conn' = "closed")]_vars
    /\ [][FailsIn("upd_tl") =>
            (/\ Cardinality(UpdatesOn("TL")) = i - 1
             /\ stmts' = stmts
             /\ durable' = durable /\ TLUntouched(durable'.TL)
             /\ TL' = durable'.TL /\ conn' = "closed")]_vars
    /\ [][pc = "exit" => UNCHANGED <<stmts, TT, TL, durable>>]_vars

\* The second UPDATE of the Texts pass failed: the first had changed a row of
\* the table, and the committed table does not show it.
C19_Witness ==
    /\ pc = "exit" /\ outcome = "error"
    /\ Cardinality(UpdatesOn("TT")) = 1 /\ Len(df_tt) = 2
    /\ \E k \in UpdatesOn("TT") : stmts[k].n = 1
    /\ UpdatesOn("TL") = {}
    /\ TTUntouched(durable.TT)

(***************************************************************************)
(* C20  No automatic retry.  The watcher starts no importer run for a file *)
(* whose last run by this process failed while the folder lists the file   *)
(* as that run found it.                                                   *)
(***************************************************************************)
C20_NoAutomaticRetry ==
    (w_pc = "invoke" /\ failed # <<>>) => f[1] # failed[1]

(***************************************************************************)
(* C21  Null mapping in the updater.  After a run that completed its       *)
(* update passes, every record of an input identifier holds, in each of    *)
(* its text fields, NULL when the cell of the identifier's (last) row is   *)
(* blank, and otherwise the cell's text, the title cut to 80 and the meta  *)
(* description to 320 characters: never "" and never a text that stands    *)
(* for the missing value.                                                  *)
(***************************************************************************)
C21_NullMapping ==
    (pc = "exit" /\ outcome = "done") =>
        \A id \in InputIds :
            LET r == LastRowOf(id)
            IN  /\ \A k \in Matching(durable.TT, id) :
                      /\ durable.TT[k].TextoPrimario = r.TextoPrimario
                      /\ durable.TT[k].TextoSecundario = r.TextoSecundario
                /\ \A k \in Matching(durable.TL, id) :
                      /\ "Texto Title" \in cols =>
                            durable.TL[k].TextoTitle =
                                IF r.TextoTitle = NULL THEN NULL
                                ELSE Slice(r.TextoTitle, TitleMax)
                      /\ "Texto Meta Description" \in cols =>
                            durable.TL[k].TextoMetaDescription =
                                IF r.TextoMeta = NULL THEN NULL
                                ELSE Slice(r.TextoMeta, MetaMax)

RECURSIVE SumIds(_, _)
\* The number of ids bound in the first n recorded SELECTs.
SumIds(st, n) == IF n = 0 THEN 0 ELSE SumIds(st, n - 1) + st[n].id

\* The positions of a row set that are the last of their identifier.
LastOfId(frame) ==
    {j \in DOMAIN frame : \A k \in DOMAIN frame : frame[k].idTipo = frame[j].idTipo => k <= j}

RECURSIVE SumMatches(_, _, _)
\* The number of rows of table t matched by the identifiers of the first n
\* rows of frame, each row of the frame counted for itself.
SumMatches(t, frame, n) ==
    IF n = 0 THEN 0
    ELSE SumMatches(t, frame, n - 1) + Cardinality(Matching(t, frame[n].idTipo))

(***************************************************************************)
(* C22  Affected-row count.  At every point of an update pass the count so *)
(* far is the sum, over the rows of the row set already handled, of the    *)
(* number of table rows with that row's identifier: an identifier matching *)
(* no row adds 0 and the pass goes on, an identifier that is in the table  *)
(* adds 1 for each of its rows in the set.  After the run both counts are  *)
(* these sums over the whole row sets, and each record holds the values of *)
(* the last row of its identifier.                                         *)
(***************************************************************************)
C22_AffectedRowCount ==
    /\ [](pc = "upd_tt" => upd_tt = SumMatches(TT, df_tt, i - 1))
    /\ [](pc = "upd_tl" => /\ upd_tt = SumMatches(TT, df_tt, Len(df_tt))
                           /\ upd_tl = SumMatches(TL, df_tl, i - 1))
    /\ []((pc = "exit" /\ outcome = "done") =>
             /\ upd_tt = SumMatches(durable.TT, df_tt, Len(df_tt))
             /\ upd_tl = SumMatches(durable.TL, df_tl, Len(df_tl))
             /\ \A j \in LastOfId(df_tt) : \A k \in Matching(durable.TT, df_tt[j].idTipo) :
                   /\ durable.TT[k].TextoPrimario = df_tt[j].TextoPrimario
                   /\ durable.TT[k].TextoSecundario = df_tt[j].TextoSecundario
             /\ \A j \in LastOfId(df_tl) : \A k \in Matching(durable.TL, df_tl[j].idTipo) :
                   /\ durable.TL[k].TextoTitle = df_tl[j].TextoTitle
                   /\ durable.TL[k].TextoMetaDescription = df_tl[j].TextoMetaDescription)
    /\ [][(pc = "upd_tl" /\ i <= Len(df_tl) /\ i' = i + 1) =>
             (/\ upd_tl' = upd_tl + Cardinality(Matching(TL, df_tl[i].idTipo))
              /\ pc' = "upd_tl" /\ outcome' = outcome)]_vars

\* A completed run whose Titles pass met an identifier without a title
\* record (count 0, no error) and whose Texts pass met an identifier twice
\* (count 2 for one record).
C22_Witness ==
    /\ pc = "exit" /\ outcome = "done"
    /\ \E k \in UpdatesOn("TL") : stmts[k].n = 0
    /\ Len(df_tt) = 2 /\ df_tt[1].idTipo = df_tt[2].idTipo
    /\ upd_tt = 2 /\ upd_tl = 0

\* The identifiers PROCESSADO_BUSCA_TIPOS maps to exactly the pair (c, g).
MappedIds(c, g) == {tipos[k][3] : k \in {j \in DOMAIN tipos : tipos[j][1] = c /\ tipos[j][2] = g}}

\* Row k of the sheet has a pair that the table maps.
IsMappedRow(k) ==
    /\ rows[k].id_cat # NA /\ rows[k].id_grupo # NA
    /\ MappedIds(rows[k].id_cat, rows[k].id_grupo) # {}

\* The sheet has been read and ensure_id_tipo has returned.
Ensured == conn # "none" /\ ~EnsureRaises(rows, cols)

\* The pairs of the rows left without identifier, and the pairs the warning
\* of ensure_id_tipo lists.
PairsWithoutId == {<<rows[k].id_cat, rows[k].id_grupo>> : k \in {j \in DOMAIN rows : ~IsMappedRow(j)}}
PairsListed == UNION {Range(l.ids) : l \in {x \in diag : x.line = "sem id_tipo mapeado"}}

(***************************************************************************)
(* C23 as stated, the part about the report: every row whose pair is not   *)
(* mapped has its pair in the warning's list.                              *)
(***************************************************************************)
C23_EveryUnmappedPairReported ==
    ("id_tipo" \notin cols /\ Ensured) => PairsWithoutId \subseteq PairsListed

(***************************************************************************)
(* C23  Identifier resolver.  For a sheet without id_tipo, ensure_id_tipo  *)
(* returns every row of the sheet, unchanged but for id_tipo: a row whose  *)
(* pair is mapped gets an identifier mapped to exactly that pair, every    *)
(* other row the absent identifier.  Rows left without identifier do not   *)
(* stop the run (it goes on to the existence check), are the source of no  *)
(* insert and no update, and the warning is logged whenever there is such  *)
(* a row; it lists the first 20 distinct pairs of those rows, in row       *)
(* order, and no others.                                                   *)
(***************************************************************************)
C23_IdentifierResolver ==
    /\ []("id_tipo" \notin cols =>
            LET df == ensure_id_tipo(tipos, rows, cols)
            IN  /\ DOMAIN df = DOMAIN rows
                /\ \A k \in DOMAIN rows :
                      /\ df[k] = [rows[k] EXCEPT !.id_tipo = df[k].id_tipo]
                      /\ IsMappedRow(k) =>
                            df[k].id_tipo \in MappedIds(rows[k].id_cat, rows[k].id_grupo)
                      /\ ~IsMappedRow(k) => df[k].id_tipo = NA)
    /\ [](("id_tipo" \notin cols /\ Ensured) =>
            /\ Range(ids_plan) \cup {stmts[k].id : k \in DOMAIN stmts}
                  \subseteq UNION {MappedIds(rows[k].id_cat, rows[k].id_grupo) :
                                      k \in {j \in DOMAIN rows : IsMappedRow(j)}}
            /\ PairsWithoutId # {} <=> PairsListed # {}
            /\ PairsListed \subseteq PairsWithoutId
            /\ Cardinality(PairsListed) =
                  IF Cardinality(PairsWithoutId) <= PairsMax
                  THEN Cardinality(PairsWithoutId) ELSE PairsMax
            /\ \A k \in DOMAIN rows :
                  (~IsMappedRow(k) /\ <<rows[k].id_cat, rows[k].id_grupo>> \notin PairsListed) =>
                      Cardinality({<<rows[j].id_cat, rows[j].id_grupo>> :
                                      j \in {m \in 1..k : ~IsMappedRow(m)}}) > PairsMax)
    /\ [][(pc = "start" /\ pc' # "start" /\ conn' # "none" /\ ~EnsureRaises(rows, cols))
             => (pc' = "check" /\ outcome' = "running")]_vars

\* A completed run over a sheet of two rows with the same category: the row
\* with the mapped pair was updated with the record of that pair, while the
\* other pair, mapped to nothing, left its row without identifier and in the
\* warning.
C23_Witness ==
    /\ pc = "exit" /\ outcome = "done"
    /\ Len(rows) = 2 /\ rows[1].id_cat = rows[2].id_cat /\ rows[1].id_grupo # rows[2].id_grupo
    /\ IsMappedRow(1) /\ ~IsMappedRow(2)
    /\ \E c \in PairCats, g \in PairGrupos : <<c, g>> # <<rows[1].id_cat, rows[1].id_grupo>>
                                             /\ MappedIds(c, g) # {}
    /\ ids_plan = <<tipos[1][3]>>
    /\ \E k \in UpdatesOn("TT") : stmts[k].n = 1
    /\ PairsListed = {<<rows[2].id_cat, rows[2].id_grupo>>}

(***************************************************************************)
(* C24  Existence checker.  Whatever the length of the list of ids, empty, *)
(* shorter than a chunk, or of several chunks, fetch_existing_idtipos      *)
(* returns exactly the ids of the list that have a row in the Texts table, *)
(* as one lookup over the whole list would; no SELECT holds more than      *)
(* 1000 ids, the chunks together hold every id of the list once, an empty  *)
(* list is answered without a SELECT, and the store is left as it was.     *)
(***************************************************************************)
C24_ExistenceChecker ==
    /\ [](pc = "fetched" =>
            /\ existentes = {id \in Range(ids_plan) : Matching(TT, id) # {}}
            /\ existentes = fetch_existing_idtipos(TT, ids_plan)
            /\ ids_plan = <<>> => (existentes = {} /\ stmts = <<>>)
            /\ Len(stmts) = (Len(ids_plan) + ChunkSize - 1) \div ChunkSize
            /\ SumIds(stmts, Len(stmts)) = Len(ids_plan))
    /\ [](caller = "fetch" =>
            /\ \A k \in DOMAIN stmts :
                  stmts[k].op = "SELECT" /\ stmts[k].id >= 1 /\ stmts[k].id <= ChunkSize
            /\ TT = store0.TT /\ TL = store0.TL /\ durable = store0)

\* A list of more than two chunks was looked up in three SELECTs, and ids of
\* the first, the second and the third chunk were found, while a stored id
\* that is not in the list was not.
C24_Witness ==
    /\ pc = "fetched" /\ Len(ids_plan) > 2 * ChunkSize /\ Len(stmts) = 3
    /\ \A k \in DOMAIN stmts : stmts[k].n > 0
    /\ IdsOf(TT) \ existentes # {}

(***************************************************************************)
(* C25  Frame of live seeding.  A statement of seed_missing changes a      *)
(* table only by appending one row, for a pair (id, content id) of the     *)
(* mapping whose id has no row in that table: the row has empty texts,     *)
(* Ativo = 1 and that content id.  So the rows a table held before the     *)
(* call are all still there, in every field as they were, whether their id *)
(* is in the mapping or not, and every other row is such a seed row.       *)
(***************************************************************************)
C25_SeedFrame ==
    /\ [][TT' # TT =>
            \E id \in DOMAIN mapa :
                /\ Matching(TT, id) = {}
                /\ TT' = Append(TT, [idTipo |-> id, TextoPrimario |-> "",
                                     TextoSecundario |-> "", Ativo |-> 1,
                                     IdConteudo |-> mapa[id], Header |-> NULL])
                /\ TL' = TL]_vars
    /\ [][TL' # TL =>
            \E id \in DOMAIN mapa :
                /\ Matching(TL, id) = {}
                /\ TL' = Append(TL, [idTipo |-> id, TextoTitle |-> "",
                                     TextoMetaDescription |-> "", Ativo |-> 1,
                                     IdConteudo |-> mapa[id]])
                /\ TT' = TT]_vars
    /\ [](/\ Len(TT) >= Len(store0.TT) /\ SubSeq(TT, 1, Len(store0.TT)) = store0.TT
          /\ Len(TL) >= Len(store0.TL) /\ SubSeq(TL, 1, Len(store0.TL)) = store0.TL)
    /\ [](\A k \in StmtsOf("INSERT") :
             stmts[k].n = 0 <=>
                 \/ stmts[k].id \in IdsOf(IF stmts[k].tbl = "TT" THEN store0.TT ELSE store0.TL)
                 \/ \E j \in 1..(k - 1) : stmts[j] = [stmts[k] EXCEPT !.n = 1])

\* seed_missing has returned from a mapping with an id that had a Texts row
\* and no Titles row: the Texts row is as it was, the Titles row is new, and
\* a row of an id outside the mapping is there as before.
C25_Witness ==
    /\ pc = "seed_returned" /\ calls = 1
    /\ \E id \in DOMAIN mapa :
          /\ id \in IdsOf(store0.TT) /\ id \notin IdsOf(store0.TL)
          /\ \E k \in Matching(TT, id) : TT[k] = OldTT(id)
          /\ \E k \in Matching(TL, id) : TL[k] = SeedRowTL(id, mapa[id])
    /\ \E id \in IdsOf(store0.TL) \ DOMAIN mapa : \E k \in Matching(TL, id) : TL[k] = OldTL(id)

(***************************************************************************)
(* C26  Re-processing on change.  For a listed file whose id is in the     *)
(* handled-set, the watcher decides to process it exactly when its         *)
(* fingerprint differs from the recorded one: the md5Checksum when the     *)
(* listing has one, the modifiedTime otherwise.  Where the listing has an  *)
(* md5Checksum and the record has none, the file is processed at least     *)
(* when its modifiedTime has changed as well.                              *)
(***************************************************************************)
C26_ReprocessOnChange ==
    (/\ f # <<>> /\ decision # "none"
     /\ w_pc = "download" \/ decision = "skip"
     /\ f[1].id \in DOMAIN processed) =>
        LET prev == processed[f[1].id]
        IN  /\ (f[1].md5Checksum # NoMd5 /\ prev.md5Checksum # NoMd5) =>
                  (decision = "run" <=> f[1].md5Checksum # prev.md5Checksum)
            /\ (f[1].md5Checksum # NoMd5 /\ prev.md5Checksum = NoMd5) =>
                  (f[1].modifiedTime # prev.modifiedTime => decision = "run")
            /\ f[1].md5Checksum = NoMd5 =>
                  (decision = "run" <=> f[1].modifiedTime # prev.modifiedTime)


(***************************************************************************)
(* C27  The handled-set is written exactly for the runs that returned      *)
(* zero.  The persisted set changes only by the save that follows a        *)
(* download that succeeded and an importer run whose exit code was zero,   *)
(* and what it gains is the fingerprint of the file just handled; a run    *)
(* that returned zero is followed by the record and the save whatever its  *)
(* ending was (completed, dry run, ratio or cap abort); a run that         *)
(* returned non-zero, and a download that failed, go to the wait with the  *)
(* in-memory and the persisted set unchanged.                              *)
(***************************************************************************)
ZeroEndings == {how \in Endings : ExitCodeOf(how) = 0}

C27_HandledIffZeroExit ==
    /\ [][disk' # disk =>
            /\ w_pc = "save" /\ started = 1 /\ ended \in ZeroEndings
            /\ disk' = Put(disk, f[1].id, CurInfo(f[1]))]_vars
    /\ [][(processed' # processed /\ ~IsRestart) =>
            /\ w_pc = "record" /\ started = 1 /\ ended \in ZeroEndings
            /\ processed' = Put(processed, f[1].id, CurInfo(f[1]))]_vars
    /\ [][(w_pc = "invoke" /\ w_pc' # "invoke" /\ ~IsRestart) =>
            /\ ended' \in Endings
            /\ ended' \in ZeroEndings => w_pc' = "record"
            /\ ended' \notin ZeroEndings =>
                  w_pc' = "sleep" /\ UNCHANGED <<processed, disk>>]_vars
    /\ [][(w_pc = "record" /\ w_pc' # "record" /\ ~IsRestart) =>
            w_pc' = "save" /\ Recorded(processed', f[1])]_vars
    /\ [][(w_pc = "save" /\ w_pc' # "save" /\ ~IsRestart) =>
            w_pc' = "sleep" /\ Recorded(disk', f[1])]_vars
    /\ [][(w_pc = "download" /\ w_pc' = "sleep") =>
            ended' = "none" /\ UNCHANGED <<processed, disk>>]_vars
    /\ [](ended \in {"abort_ratio", "abort_cap", "dry_run"} =>
            w_pc \in {"record", "save"} \/ Recorded(disk, f[1]))
    /\ [](ended \in Endings \ ZeroEndings => w_pc \notin {"record", "save"})

C27_Witness ==
    /\ w_pc = "sleep" /\ f # <<>>
    /\ ended \in {"abort_ratio", "abort_cap", "dry_run"}
    /\ Recorded(disk, f[1])
    /\ ~reloaded

(***************************************************************************)
(* C28  sanitize_filename.  For every name the result is non-empty, ends   *)
(* with .xlsx in either case, holds no control character (codes 0-31) and  *)
(* none of  < > : " / \ | ? *, so the path joined of the temporary         *)
(* directory and the result is a file directly in that directory; and      *)
(* sanitizing the result again changes nothing.                            *)
(***************************************************************************)
C28_SanitizeFilename ==
    w_pc \in {"join", "named"} =>
        LET n == Len(safe_name)
        IN  /\ safe_name # <<>>
            /\ n >= 5
            /\ safe_name[n - 4] = 46
            /\ safe_name[n - 3] \in {120, 88}
            /\ safe_name[n - 2] \in {108, 76}
            /\ safe_name[n - 1] \in {115, 83}
            /\ safe_name[n] \in {120, 88}
            /\ \A k \in 1..n :
                  safe_name[k] \notin (0..31) \cup {60, 62, 58, 34, 47, 92, 124, 63, 42}
            /\ sanitize_filename(safe_name) = safe_name
            /\ w_pc = "named" =>
                  /\ local_path = <<47, 116, 47>> \o safe_name
                  /\ safe_name \notin {<<46>>, <<46, 46>>}

C28_Witness ==
    /\ w_pc = "named"
    /\ \E k \in DOMAIN fname : fname[k] \in {47, 92}
    /\ \E k \in DOMAIN fname : fname[k] = 0
    /\ fname[Len(fname)] = 10
    /\ safe_name # fname
====
